---- MODULE Spec2Model ----
(***************************************************************************)
(* A model of FormQ's hybrid field-resolution pipeline: the field          *)
(* classifier, the security denylist, the static matcher, the response     *)
(* validator, the LLM orchestrator, the background TRIGGER_FILL handler    *)
(* and the learning service.  Strings are TLA+ strings; confidences are    *)
(* percentages (1.0 = 100, 0.95 = 95, ...).                                *)
(***************************************************************************)
EXTENDS Integers, Sequences, FiniteSets, TLC

(***************************************************************************)
(* String helpers (JavaScript String / RegExp primitives).                 *)
(***************************************************************************)

\* s[i] as a one-character string
CharAt(s, i) == SubSeq(s, i, i)

\* String.prototype.includes
Includes(hay, needle) ==
    \E i \in 1..(Len(hay) - Len(needle) + 1) :
        SubSeq(hay, i, i + Len(needle) - 1) = needle

\* String.prototype.startsWith
StartsWith(s, p) == Len(s) >= Len(p) /\ SubSeq(s, 1, Len(p)) = p

LowerLetters == {"a","b","c","d","e","f","g","h","i","j","k","l","m",
                 "n","o","p","q","r","s","t","u","v","w","x","y","z"}
UpperLetters == {"A","B","C","D","E","F","G","H","I","J","K","L","M",
                 "N","O","P","Q","R","S","T","U","V","W","X","Y","Z"}
Digits == {"0","1","2","3","4","5","6","7","8","9"}

\* \w of a JavaScript regular expression
IsWordChar(c) == c \in LowerLetters \cup UpperLetters \cup Digits \cup {"_"}

\* \s of a JavaScript regular expression (the model's strings use the blank only)
IsSpace(c) == c = " "

LowerOf(c) ==
    CASE c = "A" -> "a" [] c = "B" -> "b" [] c = "C" -> "c" [] c = "D" -> "d"
      [] c = "E" -> "e" [] c = "F" -> "f" [] c = "G" -> "g" [] c = "H" -> "h"
      [] c = "I" -> "i" [] c = "J" -> "j" [] c = "K" -> "k" [] c = "L" -> "l"
      [] c = "M" -> "m" [] c = "N" -> "n" [] c = "O" -> "o" [] c = "P" -> "p"
      [] c = "Q" -> "q" [] c = "R" -> "r" [] c = "S" -> "s" [] c = "T" -> "t"
      [] c = "U" -> "u" [] c = "V" -> "v" [] c = "W" -> "w" [] c = "X" -> "x"
      [] c = "Y" -> "y" [] c = "Z" -> "z" [] OTHER -> c

\* String.prototype.toLowerCase
RECURSIVE ToLowerCase(_)
ToLowerCase(s) ==
    IF Len(s) = 0 THEN ""
    ELSE LowerOf(CharAt(s, 1)) \o ToLowerCase(SubSeq(s, 2, Len(s)))

\* String.prototype.trim
RECURSIVE TrimLeft(_)
TrimLeft(s) ==
    IF Len(s) > 0 /\ IsSpace(CharAt(s, 1)) THEN TrimLeft(SubSeq(s, 2, Len(s))) ELSE s

RECURSIVE TrimRight(_)
TrimRight(s) ==
    IF Len(s) > 0 /\ IsSpace(CharAt(s, Len(s)))
    THEN TrimRight(SubSeq(s, 1, Len(s) - 1)) ELSE s

Trim(s) == TrimRight(TrimLeft(s))

\* .replace(/\s+/g, ' ')
RECURSIVE CollapseSpaces(_)
CollapseSpaces(s) ==
    IF Len(s) = 0 THEN ""
    ELSE IF IsSpace(CharAt(s, 1))
         THEN " " \o CollapseSpaces(TrimLeft(s))
         ELSE CharAt(s, 1) \o CollapseSpaces(SubSeq(s, 2, Len(s)))

\* .replace(/[^\w\s-]/g, '')
RECURSIVE StripPunctuation(_)
StripPunctuation(s) ==
    IF Len(s) = 0 THEN ""
    ELSE LET c == CharAt(s, 1)
             rest == StripPunctuation(SubSeq(s, 2, Len(s)))
         IN IF IsWordChar(c) \/ IsSpace(c) \/ c = "-" THEN c \o rest ELSE rest

\* normalizeText: lower-case, trim, collapse white space, strip punctuation
normalizeText(text) == StripPunctuation(CollapseSpaces(Trim(ToLowerCase(text))))

\* The matches of the regular expression  a\s*b  in s, as <<first, last>> index
\* pairs (b may be empty: the literal a).
Occurrences(s, a, b) ==
    { <<i, j>> \in (1..Len(s)) \X (1..Len(s)) :
        /\ i + Len(a) - 1 <= Len(s)
        /\ SubSeq(s, i, i + Len(a) - 1) = a
        /\ j - Len(b) + 1 >= i + Len(a)
        /\ (b = "" => j = i + Len(a) - 1)
        /\ SubSeq(s, j - Len(b) + 1, j) = b
        /\ \A k \in (i + Len(a))..(j - Len(b)) : IsSpace(CharAt(s, k)) }

\* /a\s*b/.test(s)
Matches(s, a, b) == Occurrences(s, a, b) # {}

\* The matches of  \b(a\s*b)\b : a match that starts and ends at a word boundary.
WordOccurrences(s, a, b) ==
    { o \in Occurrences(s, a, b) :
        /\ (o[1] = 1 \/ ~IsWordChar(CharAt(s, o[1] - 1)))
        /\ (o[2] = Len(s) \/ ~IsWordChar(CharAt(s, o[2] + 1))) }

\* /\b(a\s*b)\b/.test(s)
WordMatches(s, a, b) == WordOccurrences(s, a, b) # {}

(***************************************************************************)
(* The security denylist (shared/constants/fieldDenylist.ts).               *)
(***************************************************************************)

FIELD_DENYLIST ==
    { "password", "passwd", "pwd", "current-password", "new-password",
      "confirm-password", "confirmpassword", "password_confirmation",
      "otp", "2fa", "totp", "verification-code", "verificationcode", "mfa",
      "pin", "security-code", "securitycode",
      "cvv", "cvc", "cvv2", "cvc2", "card-cvc", "card-cvv", "security-number",
      "token", "csrf", "nonce", "captcha", "recaptcha", "hcaptcha",
      "ssn", "social-security", "socialsecurity", "tax-id", "taxid",
      "routing-number", "routingnumber", "account-number", "accountnumber" }

AUTOCOMPLETE_DENYLIST == { "new-password", "current-password", "one-time-code", "cc-csc" }

\* A denylist check that looks at the input kind only
isFieldDenylistedByType(field) == field.inputType = "password"

\* isFieldDenylisted(field): input kind, autocomplete token, label, name and id
isFieldDenylisted(field) ==
    \/ field.inputType = "password"
    \/ /\ field.autocomplete # ""
       /\ Trim(ToLowerCase(field.autocomplete)) \in AUTOCOMPLETE_DENYLIST
    \/ \E denied \in FIELD_DENYLIST :
           Includes(ToLowerCase(field.normalizedLabel), denied)
    \/ \E denied \in FIELD_DENYLIST :
           \/ Includes(ToLowerCase(field.name), denied)
           \/ Includes(ToLowerCase(field.idAttr), denied)

(***************************************************************************)
(* The field classifier (content/FieldSignature.ts).                       *)
(***************************************************************************)

autocompleteMap ==
    [ ac \in { "given-name", "family-name", "name", "email", "tel", "tel-national",
               "address-line1", "address-line2", "address-level2", "address-level1",
               "postal-code", "country", "country-name", "organization",
               "organization-title", "url", "username", "bday" } |->
        CASE ac = "given-name" -> "first_name"
          [] ac = "family-name" -> "last_name"
          [] ac = "name" -> "full_name"
          [] ac = "email" -> "email"
          [] ac \in {"tel", "tel-national"} -> "phone"
          [] ac = "address-line1" -> "address_line1"
          [] ac = "address-line2" -> "address_line2"
          [] ac = "address-level2" -> "city"
          [] ac = "address-level1" -> "state"
          [] ac = "postal-code" -> "zip"
          [] ac \in {"country", "country-name"} -> "country"
          [] ac = "organization" -> "company"
          [] ac = "organization-title" -> "job_title"
          [] ac = "url" -> "website"
          [] ac = "username" -> "username"
          [] ac = "bday" -> "date_of_birth" ]

\* One alternative of a label pattern: the literal a, or a\s*b.
Alt(a, b) == [a |-> a, b |-> b]

\* /\b(alt1|alt2|...)\b/.test(label)
AnyWord(label, alts) == \E x \in alts : WordMatches(label, x.a, x.b)

\* /\b(h1|h2|...)\b.*\b(t1|t2|...)\b/.test(label)
WordThenWord(label, heads, tails) ==
    \E h \in heads, t \in tails :
        \E o1 \in WordOccurrences(label, h.a, h.b) :
            \E o2 \in WordOccurrences(label, t.a, t.b) : o2[1] > o1[2]

\* labelPatterns, in the order they are tested (first match wins)
labelPatternClass(label) ==
    IF AnyWord(label, {Alt("first", "name"), Alt("given", "name"), Alt("fname", "")})
            THEN "first_name"
      ELSE IF AnyWord(label, {Alt("last", "name"), Alt("family", "name"),
                         Alt("surname", ""), Alt("lname", "")})
            THEN "last_name"
      ELSE IF AnyWord(label, {Alt("full", "name"), Alt("your", "name"), Alt("name", "")})
            THEN "full_name"
      ELSE IF AnyWord(label, {Alt("email", ""), Alt("e-mail", ""), Alt("email", "address")})
            THEN "email"
      ELSE IF AnyWord(label, {Alt("phone", ""), Alt("mobile", ""), Alt("cell", ""),
                         Alt("telephone", ""), Alt("tel", "")})
            THEN "phone"
      ELSE IF WordThenWord(label, {Alt("address", ""), Alt("street", "")},
                             {Alt("1", ""), Alt("one", ""), Alt("line", "1")})
            THEN "address_line1"
      ELSE IF WordThenWord(label, {Alt("address", ""), Alt("street", "")},
                             {Alt("2", ""), Alt("two", ""), Alt("line", "2")})
            THEN "address_line2"
      ELSE IF AnyWord(label, {Alt("city", ""), Alt("town", "")}) THEN "city"
      ELSE IF AnyWord(label, {Alt("state", ""), Alt("province", ""), Alt("region", "")})
            THEN "state"
      ELSE IF AnyWord(label, {Alt("zip", ""), Alt("postal", ""), Alt("postcode", "")})
            THEN "zip"
      ELSE IF AnyWord(label, {Alt("country", "")}) THEN "country"
      ELSE IF AnyWord(label, {Alt("company", ""), Alt("organization", ""), Alt("employer", "")})
            THEN "company"
      ELSE IF AnyWord(label, {Alt("job", "title"), Alt("position", ""), Alt("role", "")})
            THEN "job_title"
      ELSE IF AnyWord(label, {Alt("website", ""), Alt("url", ""), Alt("homepage", "")})
            THEN "website"
      ELSE IF AnyWord(label, {Alt("username", ""), Alt("user", "id"), Alt("login", "")})
            THEN "username"
      ELSE IF AnyWord(label, {Alt("date", "of birth"), Alt("dateof", "birth"),
                         Alt("date", "ofbirth"), Alt("dob", ""), Alt("birthday", ""),
                         Alt("birth", "date")})
            THEN "date_of_birth"
      ELSE IF AnyWord(label, {Alt("message", ""), Alt("comment", ""), Alt("note", ""),
                         Alt("description", "")})
            THEN "message"
      ELSE "unknown"

\* inferSemanticClass: autocomplete token, then input kind, then label patterns
inferSemanticClass(normalizedLabel, autocomplete, inputType) ==
    LET label == ToLowerCase(normalizedLabel)
        ac == ToLowerCase(autocomplete)
    IN IF ac # "" /\ ac \in DOMAIN autocompleteMap THEN autocompleteMap[ac]
       ELSE IF inputType = "email" THEN "email"
       ELSE IF inputType = "tel" THEN "phone"
       ELSE IF inputType = "url" THEN "website"
       ELSE IF inputType = "password" THEN "password"
       ELSE labelPatternClass(label)

(***************************************************************************)
(* The static matcher (FieldMapper: mapFieldsToProfile, tryFuzzyMatch,     *)
(* createSuggestedMappings).  A profile's fields are a sequence of         *)
(* [key, value] records with unique keys; a mapping is a record            *)
(* [fieldSignature, value, confidence, source].                            *)
(***************************************************************************)

SEMANTIC_TO_PROFILE_KEY(semanticClass) ==
    CASE semanticClass = "first_name" -> <<"firstName", "first_name", "givenName">>
      [] semanticClass = "last_name" -> <<"lastName", "last_name", "familyName", "surname">>
      [] semanticClass = "full_name" -> <<"fullName", "full_name", "name">>
      [] semanticClass = "date_of_birth" -> <<"dateOfBirth", "dob", "birthDate">>
      [] semanticClass = "email" -> <<"email", "emailAddress", "email_address">>
      [] semanticClass = "phone" ->
            <<"phone", "phoneNumber", "phone_number", "mobile", "telephone">>
      [] semanticClass = "address_line1" ->
            <<"address", "addressLine1", "address_line1", "street", "streetAddress">>
      [] semanticClass = "address_line2" ->
            <<"addressLine2", "address_line2", "apt", "suite", "unit">>
      [] semanticClass = "city" -> <<"city", "town", "locality">>
      [] semanticClass = "state" -> <<"state", "province", "region">>
      [] semanticClass = "zip" -> <<"zip", "zipCode", "zip_code", "postalCode", "postal_code">>
      [] semanticClass = "country" -> <<"country", "countryName">>
      [] semanticClass = "company" -> <<"company", "organization", "employer", "companyName">>
      [] semanticClass = "job_title" -> <<"jobTitle", "job_title", "title", "position", "role">>
      [] semanticClass = "website" -> <<"website", "url", "homepage", "personalWebsite">>
      [] semanticClass = "username" -> <<"username", "user", "login">>
      [] OTHER -> << >>

\* profileFields.find(f => f.key === key)?.value, "" when there is no such field
findFieldValue(profileFields, key) ==
    IF \E i \in 1..Len(profileFields) : profileFields[i].key = key
    THEN profileFields[CHOOSE i \in 1..Len(profileFields) :
                           /\ profileFields[i].key = key
                           /\ \A j \in 1..(i - 1) : profileFields[j].key # key].value
    ELSE ""

\* profileFields.find(f => f.key === key) !== undefined
hasField(profileFields, key) == \E i \in 1..Len(profileFields) : profileFields[i].key = key

\* The value of the first key of `keys` that the profile holds with a non-empty
\* value ("" when there is none): for (const key of keys) { if (field?.value) ... }
RECURSIVE firstKeyValue(_, _)
firstKeyValue(keys, profileFields) ==
    IF Len(keys) = 0 THEN ""
    ELSE IF findFieldValue(profileFields, keys[1]) # ""
         THEN findFieldValue(profileFields, keys[1])
         ELSE firstKeyValue(Tail(keys), profileFields)

Mapping(field, value, confidence, source) ==
    [fieldSignature |-> field, value |-> value, confidence |-> confidence, source |-> source]

\* fuzzyPatterns, in order: the alternatives of the regular expression and the keys
fuzzyPatterns ==
    << [alts |-> {Alt("first", "name"), Alt("fname", ""), Alt("given", "")},
        keys |-> <<"firstName", "first_name", "givenName">>],
       [alts |-> {Alt("last", "name"), Alt("lname", ""), Alt("surname", ""), Alt("family", "")},
        keys |-> <<"lastName", "last_name", "familyName">>],
       [alts |-> {Alt("full", "name"), Alt("your", "name")},
        keys |-> <<"fullName", "full_name", "name">>],
       [alts |-> {Alt("email", ""), Alt("e-mail", "")},
        keys |-> <<"email", "emailAddress", "email_address">>],
       [alts |-> {Alt("phone", ""), Alt("mobile", ""), Alt("cell", ""), Alt("tel", "")},
        keys |-> <<"phone", "phoneNumber", "phone_number">>],
       [alts |-> {Alt("company", ""), Alt("organization", ""), Alt("employer", "")},
        keys |-> <<"company", "companyName">>],
       [alts |-> {Alt("title", ""), Alt("position", ""), Alt("role", "")},
        keys |-> <<"jobTitle", "job_title">>],
       [alts |-> {Alt("city", ""), Alt("town", "")}, keys |-> <<"city">>],
       [alts |-> {Alt("state", ""), Alt("province", "")}, keys |-> <<"state">>],
       [alts |-> {Alt("zip", ""), Alt("postal", "")},
        keys |-> <<"zip", "zipCode", "postalCode">>],
       [alts |-> {Alt("address", ""), Alt("street", "")},
        keys |-> <<"address", "addressLine1", "address_line1">>] >>

\* The exact-key tier: the profile fields whose normalized key equals the label
exactKeyHits(normalizedLabel, profileFields) ==
    { i \in 1..Len(profileFields) :
        ToLowerCase(normalizeText(profileFields[i].key)) = normalizedLabel }

\* The alias tier: the patterns that match the label and have a key with a value
aliasHits(normalizedLabel, profileFields) ==
    { p \in 1..Len(fuzzyPatterns) :
        /\ \E x \in fuzzyPatterns[p].alts : Matches(normalizedLabel, x.a, x.b)
        /\ firstKeyValue(fuzzyPatterns[p].keys, profileFields) # "" }

\* The partial tier: substring containment either way between label and key
partialHits(normalizedLabel, profileFields) ==
    { i \in 1..Len(profileFields) :
        LET normalizedKey == ToLowerCase(normalizeText(profileFields[i].key))
        IN \/ Includes(normalizedKey, normalizedLabel)
           \/ Includes(normalizedLabel, normalizedKey) }

Min(S) == CHOOSE x \in S : \A y \in S : x <= y

\* The tiers taken with the alias patterns ahead of the exact keys
firstTierAliasFirst(field, profileFields, exact, alias, partial) ==
    IF alias # {}
    THEN << Mapping(field, firstKeyValue(fuzzyPatterns[Min(alias)].keys, profileFields),
                    80, "static") >>
    ELSE IF exact # {}
    THEN << Mapping(field, profileFields[Min(exact)].value, 95, "static") >>
    ELSE IF partial # {}
    THEN << Mapping(field, profileFields[Min(partial)].value, 70, "static") >>
    ELSE << >>

\* The tier tryFuzzyMatch returns from, given the hits of each: << >> for null
firstTier(field, profileFields, exact, alias, partial) ==
    IF exact # {}
    THEN << Mapping(field, profileFields[Min(exact)].value, 95, "static") >>
    ELSE IF alias # {}
    THEN << Mapping(field, firstKeyValue(fuzzyPatterns[Min(alias)].keys, profileFields),
                    80, "static") >>
    ELSE IF partial # {}
    THEN << Mapping(field, profileFields[Min(partial)].value, 70, "static") >>
    ELSE << >>

\* tryFuzzyMatch's three loops over the normalized label
fuzzyTiers(field, profileFields, normalizedLabel) ==
    firstTier(field, profileFields,
              exactKeyHits(normalizedLabel, profileFields),
              aliasHits(normalizedLabel, profileFields),
              partialHits(normalizedLabel, profileFields))

\* tryFuzzyMatch: << >> for null, <<mapping>> otherwise
tryFuzzyMatch(field, profileFields) ==
    fuzzyTiers(field, profileFields, ToLowerCase(normalizeText(field.normalizedLabel)))

\* The body of mapFieldsToProfile's loop for one field
mapOneField(field, profileFields) ==
    IF field.semanticClass = "password" THEN << >>
    ELSE LET semanticValue ==
                 IF field.semanticClass # "unknown"
                 THEN firstKeyValue(SEMANTIC_TO_PROFILE_KEY(field.semanticClass), profileFields)
                 ELSE ""
         IN IF semanticValue # ""
            THEN << Mapping(field, semanticValue, 100, "static") >>
            ELSE tryFuzzyMatch(field, profileFields)

RECURSIVE mapFieldsToProfile(_, _)
mapFieldsToProfile(fields, profileFields) ==
    IF Len(fields) = 0 THEN << >>
    ELSE mapOneField(fields[1], profileFields) \o mapFieldsToProfile(Tail(fields), profileFields)

\* fields.some(f => f.semanticClass === cls)
hasClass(fields, cls) == \E i \in 1..Len(fields) : fields[i].semanticClass = cls

\* fields.find(f => f.semanticClass === cls), for a class the form has
firstOfClass(fields, cls) ==
    fields[CHOOSE i \in 1..Len(fields) :
               /\ fields[i].semanticClass = cls
               /\ \A j \in 1..(i - 1) : fields[j].semanticClass # cls]

\* mappings.some(m => m.fieldSignature.id === id)
isMapped(mappings, id) == \E i \in 1..Len(mappings) : mappings[i].fieldSignature.id = id

\* a || b on strings
OrElse(a, b) == IF a # "" THEN a ELSE b

\* fullName.trim().split(/\s+/): the first token and the rest joined by blanks
RECURSIVE firstToken(_)
firstToken(s) ==
    IF Len(s) = 0 \/ IsSpace(CharAt(s, 1)) THEN ""
    ELSE CharAt(s, 1) \o firstToken(SubSeq(s, 2, Len(s)))

restTokens(s) ==
    LET t == Trim(s) IN CollapseSpaces(TrimLeft(SubSeq(t, Len(firstToken(t)) + 1, Len(t))))

\* `mappings.push({fieldSignature: <the first field of the class>, value, 0.9})`
\* unless that field is mapped
pushForClass(fields, cls, value, mappings) ==
    IF isMapped(mappings, firstOfClass(fields, cls).id) THEN mappings
    ELSE Append(mappings, Mapping(firstOfClass(fields, cls), value, 90, "static"))

\* The post-pass that splits the profile's full name over first and last name fields
splitFullName(fields, profileFields, fullName, mappings) ==
    IF /\ ~hasClass(fields, "full_name")
       /\ hasClass(fields, "first_name") /\ hasClass(fields, "last_name")
       /\ fullName # ""
       /\ ~hasField(profileFields, "firstName")
       /\ ~hasField(profileFields, "lastName")
       /\ restTokens(fullName) # ""
    THEN pushForClass(fields, "last_name", restTokens(fullName),
                      pushForClass(fields, "first_name", firstToken(Trim(fullName)),
                                   mappings))
    ELSE mappings

\* The post-pass that joins the profile's first and last name for a full name field
joinFullName(fields, profileFields, firstName, lastName, mappings) ==
    IF /\ hasClass(fields, "full_name")
       /\ ~hasClass(fields, "first_name") /\ ~hasClass(fields, "last_name")
       /\ firstName # "" /\ lastName # ""
       /\ ~hasField(profileFields, "fullName")
    THEN pushForClass(fields, "full_name", firstName \o " " \o lastName, mappings)
    ELSE mappings

\* createSuggestedMappings: mapFieldsToProfile, then the name split / join post-pass
createSuggestedMappings(fields, profileFields) ==
    joinFullName(fields, profileFields,
                 OrElse(findFieldValue(profileFields, "firstName"),
                        findFieldValue(profileFields, "first_name")),
                 OrElse(findFieldValue(profileFields, "lastName"),
                        findFieldValue(profileFields, "last_name")),
                 splitFullName(fields, profileFields,
                               OrElse(findFieldValue(profileFields, "fullName"),
                                      findFieldValue(profileFields, "full_name")),
                               mapFieldsToProfile(fields, profileFields)))

(***************************************************************************)
(* The response validator (ResponseValidator.ts).  A raw model response is *)
(* [kind, entries]: kind "object" is text that holds a JSON object whose   *)
(* members are entries (a sequence of [key, value], keys unique, value     *)
(* NullValue for a JSON null); every other kind fails to parse.            *)
(***************************************************************************)

NullValue == "<null>"

AllChars(s, ok(_)) == \A i \in 1..Len(s) : ok(CharAt(s, i))

CountChar(s, c) == Cardinality({ i \in 1..Len(s) : CharAt(s, i) = c })

\* EMAIL_PATTERN  /^[^\s@]+@[^\s@]+\.[^\s@]+$/
EMAIL_PATTERN(s) ==
    /\ \A i \in 1..Len(s) : ~IsSpace(CharAt(s, i))
    /\ CountChar(s, "@") = 1
    /\ \E p \in 2..Len(s) :
          /\ CharAt(s, p) = "@"
          /\ \E q \in (p + 2)..(Len(s) - 1) : CharAt(s, q) = "."

IsPhoneChar(c) == c \in Digits \cup {" ", "-", "+", "(", ")", "."}

\* PHONE_PATTERN  /^[\d\s\-\+\(\)\.]{7,20}$/
PHONE_PATTERN(s) == Len(s) >= 7 /\ Len(s) <= 20 /\ AllChars(s, IsPhoneChar)

\* URL_PATTERN  /^https?:\/\/.+/i
URL_PATTERN(s) ==
    LET l == ToLowerCase(s)
    IN \/ StartsWith(l, "http://") /\ Len(l) > 7
       \/ StartsWith(l, "https://") /\ Len(l) > 8

IsDigit(c) == c \in Digits

\* DATE_PATTERN  /^\d{4}-\d{2}-\d{2}$/
DATE_PATTERN(s) ==
    /\ Len(s) = 10
    /\ \A i \in {1, 2, 3, 4, 6, 7, 9, 10} : IsDigit(CharAt(s, i))
    /\ CharAt(s, 5) = "-" /\ CharAt(s, 8) = "-"

IsZipChar(c) == c \in Digits \cup {"-", " "}

\* ZIP_PATTERN  /^[\d\-\s]{3,10}$/
ZIP_PATTERN(s) == Len(s) >= 3 /\ Len(s) <= 10 /\ AllChars(s, IsZipChar)

\* !isNaN(Number(s)) for a trimmed, non-empty s: a decimal literal with an optional
\* sign and an optional fraction (the exponent, hex and Infinity forms are not among
\* the model's values).
IsNumeric(s) ==
    LET body == IF Len(s) > 0 /\ CharAt(s, 1) \in {"+", "-"} THEN SubSeq(s, 2, Len(s)) ELSE s
    IN /\ \E i \in 1..Len(body) : IsDigit(CharAt(body, i))
       /\ \A i \in 1..Len(body) : IsDigit(CharAt(body, i)) \/ CharAt(body, i) = "."
       /\ CountChar(body, ".") <= 1

MinOf(a, b) == IF a <= b THEN a ELSE b

\* The switch on field.inputType in validateValueType: the confidence it leaves
\* (below 90 exactly when it also sets a TYPE_MISMATCH warning)
kindConfidence(value, field) ==
    LET trimmedValue == Trim(value)
    IN IF field.inputType = "email" /\ ~EMAIL_PATTERN(trimmedValue) THEN 50
       ELSE IF field.inputType = "tel" /\ ~PHONE_PATTERN(trimmedValue) THEN 60
       ELSE IF field.inputType = "url" /\ ~URL_PATTERN(trimmedValue) THEN 50
       ELSE IF field.inputType = "date" /\ ~DATE_PATTERN(trimmedValue) THEN 60
       ELSE IF field.inputType = "number" /\ ~IsNumeric(trimmedValue) THEN 40
       ELSE 90

\* `if (field.semanticClass === 'zip' && !ZIP_PATTERN.test(trimmedValue))`
capForZip(field, trimmedValue, confidence) ==
    IF field.semanticClass = "zip" /\ ~ZIP_PATTERN(trimmedValue)
    THEN MinOf(confidence, 60) ELSE confidence

\* `if (field.semanticClass === 'email' && !EMAIL_PATTERN.test(trimmedValue))`
capForEmail(field, trimmedValue, confidence) ==
    IF field.semanticClass = "email" /\ ~EMAIL_PATTERN(trimmedValue)
    THEN MinOf(confidence, 50) ELSE confidence

\* validateValueType(value, field).confidence
validateValueType(value, field) ==
    capForEmail(field, Trim(value),
                capForZip(field, Trim(value), kindConfidence(value, field)))

\* parseJSON: the members with a non-null value, or failure
parseOk(rawResponse) == rawResponse.kind = "object"

RECURSIVE dropNulls(_)
dropNulls(entries) ==
    IF Len(entries) = 0 THEN << >>
    ELSE (IF entries[1].value = NullValue THEN << >> ELSE << entries[1] >>)
         \o dropNulls(Tail(entries))

parseJSON(rawResponse) == dropNulls(rawResponse.entries)

\* fieldMap.get(fieldId): the last field of the form with that id
hasFieldId(fields, id) == \E i \in 1..Len(fields) : fields[i].id = id

fieldById(fields, id) ==
    fields[CHOOSE i \in 1..Len(fields) :
               /\ fields[i].id = id
               /\ \A j \in (i + 1)..Len(fields) : fields[j].id # id]

EmptyResult == [mappings |-> << >>, errors |-> << >>, warnings |-> << >>]

\* The body of validate's loop for a member whose field exists, is not denylisted
\* and whose value is not blank
acceptEntry(acc, field, value, kind) ==
    [acc EXCEPT
       !.warnings = IF kind < 90
                    THEN Append(@, [type |-> "TYPE_MISMATCH", fieldId |-> field.id])
                    ELSE @,
       !.mappings = Append(@, Mapping(field, Trim(value),
                                      validateValueType(value, field), "llm"))]

\* The body of validate's loop for one member
validateEntry(acc, fields, fieldId, value) ==
    IF ~hasFieldId(fields, fieldId)
    THEN [acc EXCEPT !.errors =
              Append(@, [type |-> "INVALID_FIELD_ID", fieldId |-> fieldId])]
    ELSE IF isFieldDenylisted(fieldById(fields, fieldId))
    THEN [acc EXCEPT !.errors =
              Append(@, [type |-> "SECURITY_VIOLATION", fieldId |-> fieldId])]
    ELSE IF Trim(value) = ""
    THEN [acc EXCEPT !.warnings =
              Append(@, [type |-> "EMPTY_VALUE", fieldId |-> fieldId])]
    ELSE acceptEntry(acc, fieldById(fields, fieldId), value,
                     kindConfidence(value, fieldById(fields, fieldId)))

\* Step 3 of validate: the loop over the parsed members, in order
RECURSIVE validateEntries(_, _, _)
validateEntries(entries, fields, acc) ==
    IF Len(entries) = 0 THEN acc
    ELSE validateEntries(Tail(entries), fields,
                         validateEntry(acc, fields, entries[1].key, entries[1].value))

hasBlockingErrors(errors) ==
    \E i \in 1..Len(errors) : errors[i].type \in {"INVALID_JSON", "SECURITY_VIOLATION"}

\* validate's return after the loop
validated(r) ==
    [valid |-> ~hasBlockingErrors(r.errors) /\ Len(r.mappings) > 0,
     mappings |-> r.mappings, errors |-> r.errors, warnings |-> r.warnings]

\* validate(rawResponse, formSignature): [valid, mappings, errors, warnings]
validate(rawResponse, fields) ==
    IF ~parseOk(rawResponse)
    THEN [valid |-> FALSE, mappings |-> << >>,
          errors |-> << [type |-> "INVALID_JSON", fieldId |-> ""] >>, warnings |-> << >>]
    ELSE validated(validateEntries(parseJSON(rawResponse), fields, EmptyResult))

\* Map.prototype.set on an insertion-ordered map keyed by field id
mapSet(result, mapping) ==
    IF isMapped(result, mapping.fieldSignature.id)
    THEN [i \in 1..Len(result) |->
             IF result[i].fieldSignature.id = mapping.fieldSignature.id
             THEN mapping ELSE result[i]]
    ELSE Append(result, mapping)

\* Map.prototype.get, for an id the map holds
mapGet(result, id) ==
    result[CHOOSE i \in 1..Len(result) : result[i].fieldSignature.id = id]

RECURSIVE addStatic(_, _)
addStatic(result, staticMappings) ==
    IF Len(staticMappings) = 0 THEN result
    ELSE addStatic(mapSet(result, staticMappings[1]), Tail(staticMappings))

\* An override test that lets the LLM mapping win a tie
overridesOnTie(mapping, existing) == mapping.confidence >= existing.confidence

\* The override test of mergeWithStaticMappings
overrides(mapping, existing) == mapping.confidence > existing.confidence

RECURSIVE addLLM(_, _)
addLLM(result, llmMappings) ==
    IF Len(llmMappings) = 0 THEN result
    ELSE LET m == llmMappings[1]
             id == m.fieldSignature.id
         IN addLLM(IF ~isMapped(result, id) \/ overrides(m, mapGet(result, id))
                   THEN mapSet(result, m) ELSE result,
                   Tail(llmMappings))

\* mergeWithStaticMappings(llmMappings, staticMappings)
mergeWithStaticMappings(llmMappings, staticMappings) ==
    addLLM(addStatic(<< >>, staticMappings), llmMappings)

(***************************************************************************)
(* The bounded universe: fields as the classifier produces them, forms,    *)
(* profiles and model responses.                                           *)
(***************************************************************************)

\* extractFieldSignature: the semantic class is inferred from the other attributes
Field(id, inputType, normalizedLabel, autocomplete, name, idAttr) ==
    [id |-> id, inputType |-> inputType, normalizedLabel |-> normalizedLabel,
     autocomplete |-> autocomplete, name |-> name, idAttr |-> idAttr,
     semanticClass |-> inferSemanticClass(normalizedLabel, autocomplete, inputType)]

fEmail == Field("f_email", "email", "your email", "", "email", "email")
fBio == Field("f_bio", "text", "bio", "", "bio", "bio")
fPass == Field("f_pass", "password", "password", "", "pass", "pass")
fSsn == Field("f_ssn", "text", "ssn", "", "ssn", "ssn")
fOtp == Field("f_otp", "text", "phone code", "one-time-code", "code", "code")
fFirst == Field("f_first", "text", "first name", "", "fname", "fname")
fLast == Field("f_last", "text", "last name", "", "lname", "lname")
fFull == Field("f_full", "text", "full name", "", "fullname", "fullname")

KV(key, value) == [key |-> key, value |-> value]

NoProfile == "<none>"
ProfileIds == {"p1", "p2"}

\* The stored profiles: staticContext.fields of each
ProfileFields(profileId) ==
    IF profileId = "p1"
    THEN << KV("email", "j@x.com"), KV("ssn", "123-45-6789"), KV("phone", "555 0100") >>
    ELSE << KV("fullName", "Ann Lee") >>

NoForm == "<none>"
FormIds == {"formA", "formB", "formC", "formD", "formE"}

\* The detected forms: domain and fields
FormFields(formId) ==
    IF formId = "formA" THEN << fEmail, fBio >>
    ELSE IF formId = "formB" THEN << fPass, fSsn, fOtp >>
    ELSE IF formId = "formC" THEN << fBio, fPass >>
    ELSE IF formId = "formE" THEN << fFull, fFirst, fLast >>
    ELSE << fPass >>

FormDomain(formId) == IF formId = "formA" THEN "a.example" ELSE "b.example"

\* How many members a model response holds at most
MaxEntries == 2

\* The keys a reply about these fields may hold: their ids and an id of no field
ResponseKeys(fields) == { fields[i].id : i \in 1..Len(fields) } \cup {"zz"}
ResponseValues == {"Hi there", " "}

ResponseEntries(fields) ==
    UNION { { e \in [1..n -> [key : ResponseKeys(fields), value : ResponseValues]] :
                   \A i, j \in 1..n : i # j => e[i].key # e[j].key } : n \in 0..MaxEntries }

\* The replies of the remote model: text that is no JSON object, or a JSON object
RawResponses(fields) ==
    { [kind |-> "garbage", entries |-> << >>] }
    \cup { [kind |-> "object", entries |-> e] : e \in ResponseEntries(fields) }

\* The outcomes of openRouterClient.chatCompletion as fill sees them
ChatOutcomes(fields) ==
    { [kind |-> "content", raw |-> r, code |-> ""] : r \in RawResponses(fields) }
    \cup { [kind |-> "empty", raw |-> [kind |-> "garbage", entries |-> << >>], code |-> ""] }
    \cup { [kind |-> "error", raw |-> [kind |-> "garbage", entries |-> << >>], code |-> c] :
             c \in {"INVALID_API_KEY", "RATE_LIMITED", "SERVER_ERROR", "NETWORK_ERROR"} }

(***************************************************************************)
(* State.                                                                  *)
(***************************************************************************)

VARIABLES
    \* LLMOrchestrator and OpenRouterClient
    orch,            \* [initialized, fallbackToStatic]: LLMOrchestrator's fields
    client,          \* [initialized, apiKey]: OpenRouterClient (apiKey: one is configured)
    storedApiKey,    \* chrome.storage.sync holds an API key
    cacheStore,      \* the response cache: the keys that hold an entry
    \* a direct caller of LLMOrchestrator.fill
    call,            \* [pc, formId, profileId, chatIssued, raw, result]
    lastFill,        \* history: the fill that returned last
    \* the background service worker
    state,           \* FillState: [type, previousState]
    stateWriter,     \* history: the TRIGGER_FILL invocation that last wrote state (0: another handler)
    session,         \* chrome.storage.session: the persisted state's type
    activeProfileId,
    currentFormSignature,
    pc,              \* per TRIGGER_FILL invocation: the await it is suspended at
    loc,             \* per TRIGGER_FILL invocation: its local variables
    outbox,          \* the FILL_COMMAND messages sent to the tab, in order
    started,         \* history: how many TRIGGER_FILL messages have arrived
    cancelled,       \* history: the invocations in flight when a REQUEST_CANCEL arrived
    \* the learning service
    learning,        \* LearningService.config: [enabled, minConfidenceToLearn, maxExamplesPerProfile]
    pendingEdits,    \* per profile: the buffered edit events
    learnedExamples, \* per profile: profile.learnedExamples
    vectors,         \* the vector store's entries
    nextId,          \* the next fresh example id
    learnLast,       \* history: the last LearningService call and what it returned
    \* mergeWithStaticMappings under test
    mergeIn,         \* [llm, static]: the arguments
    mergeOut,        \* the result, once computed
    \* the vector store
    vsStorage,       \* the IndexedDB object store `vectors`: the entries, one per id
    vsCache,         \* VectorStore.cache: per profile, the cached array (or none)
    vsLast,          \* history: the last call, the profiles it was addressed to, its result
    vsPair,          \* history: ingestKnowledgeBase then deleteBySourceType, with the
                     \* profile's other vectors as they were before the pair
    \* the static matcher under test
    matchIn,         \* [fields, profileFields]: the arguments
    matchOut,        \* the result, once computed
    \* CacheService over StorageService's cache store
    cacheService,    \* [initialized, at]: CacheService's flag and where a call to it stands
    cacheDb,         \* the `cache` object store: per key, its entry or NoEntry
    cacheNow,        \* Date.now()
    cacheLast,       \* history: what the last CacheService.get returned
    \* OpenRouterClient.makeRequest
    req,             \* the request in progress: its position, attempt, last error and history
    \* VectorStore calls in flight at the same time
    tasks,           \* per caller, the call it is in: its position and locals
    txQueue,         \* the IndexedDB transactions on `vectors`, in creation order
    calls,           \* how many calls were made
    raced,           \* history: a load and a write of one profile were in flight together
    \* EmbeddingService
    embeddingCache,  \* the Map text hash -> embedding: its entries in insertion order
    embRecency,      \* history: the cached keys by their last use, least recent first
    embLast,         \* history: the last call and what it did
    \* RAGEngine.buildContext and the content script's executeFill
    ctxLast,         \* the last buildContext call: its arguments and what it returned
    execLast         \* the last executeFill call: its mappings and what it did to each

orchVars == << orch, client, storedApiKey, cacheStore >>
callVars == << call, lastFill >>
bgVars == << state, stateWriter, session, activeProfileId, currentFormSignature,
             pc, loc, outbox, started, cancelled >>
learnVars == << learning, pendingEdits, learnedExamples, vectors, nextId, learnLast >>
mergeVars == << mergeIn, mergeOut >>
vecVars == << vsStorage, vsCache, vsLast, vsPair >>
matchVars == << matchIn, matchOut >>
cacheVars == << cacheService, cacheDb, cacheNow, cacheLast >>
reqVars == << req >>
concVars == << tasks, txQueue, calls, raced >>
embVars == << embeddingCache, embRecency, embLast >>
ctxVars == << ctxLast >>
execVars == << execLast >>
serviceVars == << cacheVars, reqVars, concVars, embVars, ctxVars, execVars >>
coreVars == << orchVars, callVars, bgVars, learnVars, mergeVars, vecVars, matchVars >>
notCache == << coreVars, reqVars, concVars, embVars, ctxVars, execVars >>
notReq == << coreVars, cacheVars, concVars, embVars, ctxVars, execVars >>
notEmb == << coreVars, cacheVars, reqVars, concVars, ctxVars, execVars >>
notCtx == << coreVars, cacheVars, reqVars, concVars, embVars, execVars >>
notExec == << coreVars, cacheVars, reqVars, concVars, embVars, ctxVars >>
vars == << coreVars, serviceVars >>

(***************************************************************************)
(* LLMOrchestrator (LLMOrchestrator.ts) and OpenRouterClient.              *)
(***************************************************************************)

NoRaw == [kind |-> "none", entries |-> << >>]

\* fill raised to its caller
Raised(reason) ==
    [raised |-> TRUE, mappings |-> << >>, source |-> "none", llmUsed |-> FALSE,
     fallbackReason |-> reason]

\* staticFill(formSignature, profile, fallbackReason), with staticMappings what
\* createSuggestedMappings(formSignature.fields, profile) returns
staticFill(staticMappings, fallbackReason) ==
    [raised |-> FALSE, mappings |-> staticMappings,
     source |-> "static", llmUsed |-> FALSE, fallbackReason |-> fallbackReason]

\* The catch block of fill, for an error with this class, code and message
fillCatch(isOpenRouterError, code, message, staticMappings, config) ==
    IF isOpenRouterError /\ code = "INVALID_API_KEY"
    THEN staticFill(staticMappings, "Invalid API key")
    ELSE IF isOpenRouterError /\ code = "RATE_LIMITED"
    THEN staticFill(staticMappings, "Rate limited")
    ELSE IF config.fallbackToStatic
    THEN staticFill(staticMappings, message)
    ELSE Raised(message)

\* fill from the validation result on
fillValidated(validationResult, staticMappings, config) ==
    IF ~validationResult.valid
    THEN IF config.fallbackToStatic
         THEN staticFill(staticMappings, "LLM response validation failed")
         ELSE fillCatch(FALSE, "", "LLM response validation failed", staticMappings, config)
    ELSE [raised |-> FALSE,
          mappings |-> mergeWithStaticMappings(validationResult.mappings, staticMappings),
          source |-> IF Len(staticMappings) > 0 THEN "hybrid" ELSE "llm",
          llmUsed |-> TRUE, fallbackReason |-> ""]

\* fill's try block from the chat completion's outcome on
fillFrom(outcome, fields, staticMappings, config) ==
    IF outcome.kind = "error"
    THEN fillCatch(outcome.code # "NETWORK_ERROR", outcome.code, outcome.code,
                   staticMappings, config)
    ELSE IF outcome.kind = "empty"
    THEN fillCatch(FALSE, "", "Empty response from LLM", staticMappings, config)
    ELSE fillValidated(validate(outcome.raw, fields), staticMappings, config)

\* fill for these fields and this profile, from the chat completion's outcome on
fillAfterChat(outcome, fields, profileFields, config) ==
    fillFrom(outcome, fields, createSuggestedMappings(fields, profileFields), config)

\* hashFormSignature's input: the domain and the multiset of "semanticClass:inputType"
fieldDescriptors(fields) ==
    LET d(i) == fields[i].semanticClass \o ":" \o fields[i].inputType
    IN { << d(i), Cardinality({ j \in 1..Len(fields) : d(j) = d(i) }) >> : i \in 1..Len(fields) }

\* buildCacheKey(formSignature, profileId)
buildCacheKey(domain, fields, profileId) ==
    [profileId |-> profileId, domain |-> domain, structure |-> fieldDescriptors(fields)]

\* createSuggestedMappings for each form and stored profile
StaticMappingsOf ==
    [formId \in FormIds |-> [profileId \in ProfileIds |->
        createSuggestedMappings(FormFields(formId), ProfileFields(profileId))]]

\* What fill gives back when it stops before the chat completion: the key is not
\* configured ("key"), or buildPrompt threw ("prompt")
EarlyFill ==
    [fallback \in BOOLEAN |-> [formId \in FormIds |-> [profileId \in ProfileIds |->
        [key |-> staticFill(StaticMappingsOf[formId][profileId], "API key not configured"),
         prompt |-> fillCatch(FALSE, "", "prompt", StaticMappingsOf[formId][profileId],
                              [fallbackToStatic |-> fallback])]]]]

\* What fill gives back for each outcome of the chat completion
FillResponses ==
    [fallback \in BOOLEAN |-> [formId \in FormIds |-> [profileId \in ProfileIds |->
        [outcome \in ChatOutcomes(FormFields(formId)) |->
            fillFrom(outcome, FormFields(formId), StaticMappingsOf[formId][profileId],
                     [fallbackToStatic |-> fallback])]]]]

IdleCall == [pc |-> "idle", formId |-> NoForm, profileId |-> NoProfile,
             chatIssued |-> FALSE, raw |-> NoRaw, result |-> Raised("")]

NoFill == [formId |-> NoForm, profileId |-> NoProfile, validated |-> FALSE]

\* fill, after `await this.init()` has returned: the availability check, the prompt,
\* and the chat-completion request (promptOk: buildPrompt returned normally)
OrchProceed(formId, profileId, apiKey, promptOk) ==
    LET early == EarlyFill[orch.fallbackToStatic][formId][profileId]
        begun == [IdleCall EXCEPT !.formId = formId, !.profileId = profileId]
    IN IF ~apiKey
       THEN call' = [begun EXCEPT !.pc = "returned", !.result = early.key]
       ELSE IF ~promptOk
       THEN call' = [begun EXCEPT !.pc = "returned", !.result = early.prompt]
       ELSE call' = [begun EXCEPT !.pc = "chat", !.chatIssued = TRUE]

\* llmOrchestrator.fill({formSignature, profile}) is called: `await this.init()`
OrchFill(formId, profileId, promptOk) ==
    /\ call.pc = "idle"
    /\ IF orch.initialized
       THEN /\ OrchProceed(formId, profileId, client.apiKey, promptOk)
            /\ UNCHANGED << orch, client >>
       ELSE IF client.initialized
       THEN /\ orch' = [orch EXCEPT !.initialized = TRUE]
            /\ OrchProceed(formId, profileId, client.apiKey, promptOk)
            /\ UNCHANGED client
       ELSE /\ call' = [IdleCall EXCEPT !.pc = "init", !.formId = formId,
                                        !.profileId = profileId]
            /\ UNCHANGED << orch, client >>
    /\ UNCHANGED << storedApiKey, cacheStore, lastFill, bgVars, learnVars, mergeVars, vecVars, matchVars, serviceVars >>

\* openRouterClient.init(): chrome.storage.sync.get resolves (ok) or rejects
OrchInitDone(ok, promptOk) ==
    /\ call.pc = "init"
    /\ IF ok
       THEN /\ client' = [initialized |-> TRUE, apiKey |-> client.apiKey \/ storedApiKey]
            /\ orch' = [orch EXCEPT !.initialized = TRUE]
            /\ OrchProceed(call.formId, call.profileId, client.apiKey \/ storedApiKey, promptOk)
       ELSE /\ call' = [call EXCEPT !.pc = "returned",
                                    !.result = Raised("Failed to load configuration")]
            /\ UNCHANGED << orch, client >>
    /\ UNCHANGED << storedApiKey, cacheStore, lastFill, bgVars, learnVars, mergeVars, vecVars, matchVars, serviceVars >>

\* The chat completion settles and fill runs to its return or throw
OrchChatDone ==
    /\ call.pc = "chat"
    /\ \E outcome \in ChatOutcomes(FormFields(call.formId)) :
       call' = [call EXCEPT
                  !.pc = "returned",
                  !.raw = IF outcome.kind = "content" THEN outcome.raw ELSE NoRaw,
                  !.result = FillResponses[orch.fallbackToStatic][call.formId]
                                          [call.profileId][outcome]]
    /\ UNCHANGED << orchVars, lastFill, bgVars, learnVars, mergeVars, vecVars, matchVars, serviceVars >>

\* The caller takes the result
OrchReturn ==
    /\ call.pc = "returned"
    /\ lastFill' = [formId |-> call.formId, profileId |-> call.profileId,
                    validated |-> ~call.result.raised /\ call.result.llmUsed]
    /\ call' = IdleCall
    /\ UNCHANGED << orchVars, bgVars, learnVars, mergeVars, vecVars, matchVars, serviceVars >>

(***************************************************************************)
(* The background service worker: the message handlers of                  *)
(* setupMessageHandlers.  A TRIGGER_FILL invocation is suspended at each   *)
(* of its awaits, where other messages are dispatched.                     *)
(***************************************************************************)

\* How many TRIGGER_FILL messages a behaviour delivers at most
MaxFills == 2

Handlers == 1..MaxFills

\* ErrorState.previousState is optional
Absent == "<absent>"

FillState(type) == [type |-> type, previousState |-> Absent, progress |-> 0]

\* The ids a TRIGGER_FILL payload may name: none, a stored profile, a deleted one
PayloadProfiles == {NoProfile, "p1", "p9"}

\* The forms content scripts report
DetectedForms == {"formB", "formC", "formD"}

\* FillRequest.ragContext is optional: a request built without it
NoRagContext == << >>

\* `context.ragContext?.length ? this.buildRAGSection(context.ragContext) : ''`
ragSection(ragContext) ==
    IF Len(ragContext) = 0 THEN "" ELSE "Previous successful fills for similar forms"

\* The request the handler hands to llmOrchestrator.fill: {formSignature, profile,
\* useCache: true}, from the context the invocation has retrieved
handlerFillRequest(local) == [formId |-> local.formId, profileId |-> local.profileId,
                              ragContext |-> NoRagContext]

InitLoc == [profileId |-> NoProfile, formId |-> NoForm, staticMappings |-> << >>, unmapped |-> << >>,
            finalMappings |-> << >>, response |-> "", moved |-> FALSE, completed |-> 0,
            fillSource |-> "static", chatIssued |-> FALSE,
            retrievedContext |-> << >>, retrieved |-> FALSE, promptRag |-> ""]

\* The replies the handler's fill call is given
BgChatOutcomes(fields) == { o \in ChatOutcomes(fields) : Len(o.raw.entries) <= 1 }

\* A filter that keeps the fields static mapping covers
fieldsButPasswords(fields, staticMappings) ==
    LET isOpen(f) == f.semanticClass # "password"
    IN SelectSeq(fields, isOpen)

\* `currentFormSignature.fields.filter(f => !mappedFieldIds.has(f.id) && ...)`
unmappedFields(fields, staticMappings) ==
    LET isUnmapped(f) == ~isMapped(staticMappings, f.id) /\ f.semanticClass # "password"
    IN SelectSeq(fields, isUnmapped)

\* The unmapped fields for each form and stored profile
UnmappedOf ==
    [formId \in FormIds |-> [profileId \in ProfileIds |->
        unmappedFields(FormFields(formId), StaticMappingsOf[formId][profileId])]]

\* What the handler's fill call gives back for each outcome of its chat completion
HandlerFillResponses ==
    [fallback \in BOOLEAN |-> [formId \in FormIds |-> [profileId \in ProfileIds |->
        [outcome \in BgChatOutcomes(UnmappedOf[formId][profileId]) |->
            fillAfterChat(outcome, UnmappedOf[formId][profileId], ProfileFields(profileId),
                          [fallbackToStatic |-> fallback])]]]]

\* isFieldDenylisted for each field of the forms
Denylisted ==
    [id \in UNION { { FormFields(f)[i].id : i \in 1..Len(FormFields(f)) } : f \in FormIds } |->
        \E f \in FormIds : \E i \in 1..Len(FormFields(f)) :
            FormFields(f)[i].id = id /\ isFieldDenylisted(FormFields(f)[i])]

\* `state = {...}; await persistSessionState()` by invocation h (0: a content message)
WriteState(type, h) ==
    /\ state' = FillState(type)
    /\ stateWriter' = h
    /\ session' = type

\* What is left of an invocation once it has returned: its reply with the source
\* it names, whether it had moved the state, and whether it had asked for a chat
\* completion
Returned(local, response) ==
    [InitLoc EXCEPT !.response = response, !.moved = local.moved,
                    !.fillSource = local.fillSource, !.chatIssued = local.chatIssued,
                    !.retrieved = local.retrieved, !.promptRag = local.promptRag]

\* The handler returns {success: false, error}
ReturnError(h, error) ==
    /\ pc' = [pc EXCEPT ![h] = "done"]
    /\ loc' = [loc EXCEPT ![h] = Returned(loc[h], error)]

\* FORM_DETECTED from the content script of a tab
FormDetected(formId) ==
    /\ currentFormSignature' = formId
    /\ WriteState("DETECTING", 0)
    /\ UNCHANGED << activeProfileId, pc, loc, outbox, started, cancelled >>
    /\ UNCHANGED << orchVars, callVars, learnVars, mergeVars, vecVars, matchVars, serviceVars >>

\* TRIGGER_FILL arrives: up to `await profileService.getById(profileId)`
TriggerFill(h, payloadProfileId) ==
    /\ h = started + 1
    /\ h \in Handlers
    /\ started' = h
    /\ LET profileId == IF payloadProfileId # NoProfile THEN payloadProfileId
                        ELSE activeProfileId
       IN IF profileId = NoProfile
          THEN ReturnError(h, "No profile selected")
          ELSE /\ pc' = [pc EXCEPT ![h] = "getById"]
               /\ loc' = [loc EXCEPT ![h].profileId = profileId]
    /\ UNCHANGED << state, stateWriter, session, activeProfileId, currentFormSignature,
                    outbox, cancelled >>
    /\ UNCHANGED << orchVars, callVars, learnVars, mergeVars, vecVars, matchVars, serviceVars >>

\* getById resolves: up to `await chrome.tabs.query(...)`
GetByIdDone(h) ==
    /\ pc[h] = "getById"
    /\ IF loc[h].profileId \notin ProfileIds
       THEN ReturnError(h, "Profile not found")
       ELSE /\ pc' = [pc EXCEPT ![h] = "tabsQuery"]
            /\ UNCHANGED loc
    /\ UNCHANGED << state, stateWriter, session, activeProfileId, currentFormSignature,
                    outbox, started, cancelled >>
    /\ UNCHANGED << orchVars, callVars, learnVars, mergeVars, vecVars, matchVars, serviceVars >>

\* `if (finalMappings.length === 0) return ...; state = FILLING; await persist`
Finalize(h, located, finalMappings) ==
    IF Len(finalMappings) = 0
    THEN /\ pc' = [pc EXCEPT ![h] = "done"]
         /\ loc' = [loc EXCEPT ![h] = Returned(located, "No fields could be mapped")]
         /\ UNCHANGED << state, stateWriter, session >>
    ELSE /\ pc' = [pc EXCEPT ![h] = "persist2"]
         /\ loc' = [loc EXCEPT ![h] = [located EXCEPT !.finalMappings = finalMappings,
                                                     !.moved = TRUE]]
         /\ WriteState("FILLING", h)

\* The test that skips the AI step with the availability alone
useAIWhenAvailable(unmapped, available) == available

\* `if (unmappedFields.length > 0 && llmOrchestrator.isAvailable())`
useAI(unmapped, available) == Len(unmapped) > 0 /\ available

\* tabs.query resolves (tabOk: with an active tab): static mapping, the unmapped
\* fields, and either INFERRING up to its persist or the final list
TabsQueryDone(h, tabOk) ==
    /\ pc[h] = "tabsQuery"
    /\ IF ~tabOk
       THEN /\ ReturnError(h, "No active tab")
            /\ UNCHANGED << state, stateWriter, session >>
       ELSE IF currentFormSignature = NoForm
       THEN /\ ReturnError(h, "No form detected on page")
            /\ UNCHANGED << state, stateWriter, session >>
       ELSE LET staticMappings == StaticMappingsOf[currentFormSignature][loc[h].profileId]
                unmapped == UnmappedOf[currentFormSignature][loc[h].profileId]
                located == [loc[h] EXCEPT !.formId = currentFormSignature,
                                          !.staticMappings = staticMappings,
                                          !.unmapped = unmapped]
            IN IF useAI(unmapped, client.apiKey)
               THEN /\ pc' = [pc EXCEPT ![h] = "persist1"]
                    /\ loc' = [loc EXCEPT ![h] = [located EXCEPT !.moved = TRUE]]
                    /\ WriteState("INFERRING", h)
               ELSE Finalize(h, located, staticMappings)
    /\ UNCHANGED << activeProfileId, currentFormSignature, outbox, started, cancelled >>
    /\ UNCHANGED << orchVars, callVars, learnVars, mergeVars, vecVars, matchVars, serviceVars >>

\* The INFERRING persist resolves: llmOrchestrator.fill up to its chat completion,
\* with the prompt built from the request's ragContext
Persist1Done(h) ==
    /\ pc[h] = "persist1"
    /\ pc' = [pc EXCEPT ![h] = "fill"]
    /\ loc' = [loc EXCEPT ![h].chatIssued = TRUE,
                          ![h].promptRag = ragSection(handlerFillRequest(loc[h]).ragContext)]
    /\ UNCHANGED << state, stateWriter, session, activeProfileId, currentFormSignature,
                    outbox, started, cancelled >>
    /\ UNCHANGED << orchVars, callVars, learnVars, mergeVars, vecVars, matchVars, serviceVars >>

\* The chat completion settles: fill returns or throws, static and AI mappings are
\* concatenated, and the handler goes on to the final list
FillDone(h) ==
    /\ pc[h] = "fill"
    /\ \E outcome \in BgChatOutcomes(loc[h].unmapped) :
       LET fillResponse == HandlerFillResponses[orch.fallbackToStatic][loc[h].formId]
                                               [loc[h].profileId][outcome]
           finalMappings == IF fillResponse.raised THEN loc[h].staticMappings
                            ELSE loc[h].staticMappings \o fillResponse.mappings
           fillSource == IF fillResponse.raised THEN "static" ELSE "combined"
       IN Finalize(h, [loc[h] EXCEPT !.fillSource = fillSource], finalMappings)
    /\ UNCHANGED << activeProfileId, currentFormSignature, outbox, started, cancelled >>
    /\ UNCHANGED << orchVars, callVars, learnVars, mergeVars, vecVars, matchVars, serviceVars >>

\* The FILLING persist resolves: MessageBus.sendToTab(tab.id, 'FILL_COMMAND', ...)
Persist2Done(h) ==
    /\ pc[h] = "persist2"
    /\ pc' = [pc EXCEPT ![h] = "send"]
    /\ outbox' = Append(outbox, [from |-> h, mappings |-> loc[h].finalMappings])
    /\ UNCHANGED << state, stateWriter, session, activeProfileId, currentFormSignature,
                    loc, started, cancelled >>
    /\ UNCHANGED << orchVars, callVars, learnVars, mergeVars, vecVars, matchVars, serviceVars >>

\* FILL_PROGRESS from the content script executing h's command: executeFill has
\* filled mapping i, which it does in order and never for a denylisted field
FillProgress(h) ==
    /\ pc[h] = "send"
    /\ \E i \in (loc[h].completed + 1)..Len(loc[h].finalMappings) :
          /\ ~Denylisted[loc[h].finalMappings[i].fieldSignature.id]
          /\ loc' = [loc EXCEPT ![h].completed = i]
          /\ IF state.type = "FILLING"
             THEN state' = [state EXCEPT !.progress = i]
             ELSE UNCHANGED state
    /\ UNCHANGED << stateWriter, session, activeProfileId, currentFormSignature, pc,
                    outbox, started, cancelled >>
    /\ UNCHANGED << orchVars, callVars, learnVars, mergeVars, vecVars, matchVars, serviceVars >>

\* FILL_COMPLETE from the content script that executed h's command
FillComplete(h) ==
    /\ pc[h] = "send"
    /\ pc' = [pc EXCEPT ![h] = "replied"]
    /\ WriteState("IDLE", 0)
    /\ UNCHANGED << activeProfileId, currentFormSignature, loc, outbox, started, cancelled >>
    /\ UNCHANGED << orchVars, callVars, learnVars, mergeVars, vecVars, matchVars, serviceVars >>

\* FILL_ERROR from the content script that executed h's command
FillError(h) ==
    /\ pc[h] = "send"
    /\ pc' = [pc EXCEPT ![h] = "replied"]
    /\ WriteState("ERROR", 0)
    /\ UNCHANGED << activeProfileId, currentFormSignature, loc, outbox, started, cancelled >>
    /\ UNCHANGED << orchVars, callVars, learnVars, mergeVars, vecVars, matchVars, serviceVars >>

\* sendToTab resolves with the content script's reply
SendResolves(h) ==
    /\ pc[h] = "replied"
    /\ pc' = [pc EXCEPT ![h] = "done"]
    /\ loc' = [loc EXCEPT ![h] = Returned(loc[h], "success")]
    /\ UNCHANGED << state, stateWriter, session, activeProfileId, currentFormSignature,
                    outbox, started, cancelled >>
    /\ UNCHANGED << orchVars, callVars, learnVars, mergeVars, vecVars, matchVars, serviceVars >>

\* sendToTab rejects: no content script on the tab, or the tab went away
SendRejects(h) ==
    /\ pc[h] = "send"
    /\ ReturnError(h, "Failed to communicate with page")
    /\ UNCHANGED << state, stateWriter, session, activeProfileId, currentFormSignature,
                    outbox, started, cancelled >>
    /\ UNCHANGED << orchVars, callVars, learnVars, mergeVars, vecVars, matchVars, serviceVars >>

\* The invocations between their first state write and their return
InFlight == { h \in Handlers : pc[h] \in {"persist1", "fill", "persist2", "send", "replied"} }

\* REQUEST_CANCEL arrives while a fill is in flight: no listener of the background
\* subscribes to it, so every listener returns undefined
RequestCancel ==
    /\ state.type \in {"INFERRING", "FILLING"}
    /\ InFlight \ cancelled # {}
    /\ cancelled' = cancelled \cup InFlight
    /\ UNCHANGED << state, stateWriter, session, activeProfileId, currentFormSignature,
                    pc, loc, outbox, started >>
    /\ UNCHANGED << orchVars, callVars, learnVars, mergeVars, vecVars, matchVars, serviceVars >>

(***************************************************************************)
(* LearningService (services/index.ts) over RAGEngine.ingestLearnedExample *)
(* and the vector store.                                                   *)
(***************************************************************************)

\* How many edits the pending buffer of one profile holds at most
MaxPending == 2

\* How many learned examples a behaviour creates at most
MaxExamples == 2

\* The profile ids the service is called with: a stored profile and a deleted one
LearnProfiles == {"p1", "p9"}

\* The edits users make: [formId, field index, the value typed]
EditTargets == { << "formA", 2 >>, << "formB", 2 >> }
EditValues == {"078-05-1120"}
OriginalConfidences == {70, 95}

RECURSIVE Join(_, _)
\* Array.prototype.join
Join(parts, sep) ==
    IF Len(parts) = 0 THEN ""
    ELSE IF Len(parts) = 1 THEN parts[1]
    ELSE parts[1] \o sep \o Join(Tail(parts), sep)

\* buildExampleText(example)
buildExampleText(example) ==
    LET part(i) == example.fieldMappings[i].fieldSignature.normalizedLabel \o ": "
                   \o example.fieldMappings[i].value
    IN "Form filled on " \o FormDomain(example.formId) \o ": "
       \o Join([i \in 1..Len(example.fieldMappings) |-> part(i)], ", ")

\* ingestLearnedExample's VectorEntry (the embedding is left out)
VectorEntry(profileId, example) ==
    [id |-> << profileId, "learned", example.id >>, profileId |-> profileId,
     sourceType |-> "learned_example", sourceId |-> example.id,
     text |-> buildExampleText(example)]

\* vectorStore.upsert(entry): replaces the entry with the same id
upsert(store, entry) == { v \in store : v.id # entry.id } \cup {entry}

\* `while (updatedExamples.length > max) updatedExamples.shift()`
RECURSIVE enforceLimit(_, _)
enforceLimit(examples, max) ==
    IF Len(examples) > max /\ Len(examples) > 0 THEN enforceLimit(Tail(examples), max)
    ELSE examples

\* The record of the last call when it is neither commitEdits nor cancelEdits
NoLearnCall == [op |-> "other", profileId |-> "", result |-> "void", hadEdits |-> FALSE,
                afterCancel |-> FALSE]

\* The edit a user makes to the field `target` of a form
EditEvent(target, confidence, newValue) ==
    [formId |-> target[1],
     originalMapping |-> Mapping(FormFields(target[1])[target[2]], "", confidence, "static"),
     newValue |-> newValue]

\* The guards with an edit at the threshold let through
shouldRecordAtThreshold(config, confidence) ==
    config.enabled /\ ~(confidence > config.minConfidenceToLearn)

\* The two guards of recordEdit: `if (!this.config.enabled) return` and
\* `if (edit.originalMapping.confidence >= this.config.minConfidenceToLearn) return`
shouldRecord(config, confidence) ==
    config.enabled /\ ~(confidence >= config.minConfidenceToLearn)

\* recordEdit(profileId, edit): buffered unless learning is disabled or the original
\* confidence reaches the threshold
RecordEdit(profileId, target, confidence, newValue) ==
    /\ Len(pendingEdits[profileId]) < MaxPending
    /\ IF shouldRecord(learning, confidence)
       THEN pendingEdits' = [pendingEdits EXCEPT ![profileId] =
                                Append(@, EditEvent(target, confidence, newValue))]
       ELSE UNCHANGED pendingEdits
    /\ learnLast' = NoLearnCall
    /\ UNCHANGED << learning, learnedExamples, vectors, nextId >>
    /\ UNCHANGED << orchVars, callVars, bgVars, mergeVars, vecVars, matchVars, serviceVars >>

\* The example is appended to the profile and ingested (embedOk: the embedding
\* request succeeded; when it fails the example stays without a vector)
StoreExample(profileId, example, embedOk) ==
    /\ learnedExamples' = [learnedExamples EXCEPT ![profileId] =
                              enforceLimit(Append(@, example), learning.maxExamplesPerProfile)]
    /\ vectors' = IF embedOk THEN upsert(vectors, VectorEntry(profileId, example))
                  ELSE vectors
    /\ nextId' = nextId + 1

\* What is left of pendingEdits after `pendingEdits.delete(profileId)`, with the
\* buffers of every profile dropped instead
withoutAnyEdits(buffers, profileId) == [q \in DOMAIN buffers |-> << >>]

\* `pendingEdits.delete(profileId)`
withoutEdits(buffers, profileId) == [buffers EXCEPT ![profileId] = << >>]

\* The last call was cancelEdits(profileId)
JustCancelled(profileId) ==
    learnLast.op = "cancelEdits" /\ learnLast.profileId = profileId

\* commitEdits(profileId): null for an empty buffer or a missing profile, the
\* example otherwise; it throws when the ingestion fails
CommitEdits(profileId, embedOk) ==
    /\ LET edits == pendingEdits[profileId]
           returned(result) == [op |-> "commitEdits", profileId |-> profileId,
                                result |-> result,
                                hadEdits |-> JustCancelled(profileId) /\ learnLast.hadEdits,
                                afterCancel |-> JustCancelled(profileId)]
       IN IF Len(edits) = 0
          THEN /\ learnLast' = returned("null")
               /\ UNCHANGED << pendingEdits, learnedExamples, vectors, nextId >>
          ELSE /\ nextId <= MaxExamples
               /\ pendingEdits' = withoutEdits(pendingEdits, profileId)
               /\ IF profileId \notin ProfileIds
                  THEN /\ learnLast' = returned("null")
                       /\ UNCHANGED << learnedExamples, vectors, nextId >>
                  ELSE LET example ==
                               [id |-> nextId, timestamp |-> nextId,
                                formId |-> edits[1].formId,
                                fieldMappings |->
                                  [i \in 1..Len(edits) |->
                                     Mapping(edits[i].originalMapping.fieldSignature,
                                             edits[i].newValue, 100, "learned")],
                                source |-> "user_edit"]
                       IN /\ StoreExample(profileId, example, embedOk)
                          /\ learnLast' = returned(IF embedOk THEN "example" ELSE "throws")
    /\ UNCHANGED learning
    /\ UNCHANGED << orchVars, callVars, bgVars, mergeVars, vecVars, matchVars, serviceVars >>

\* cancelEdits(profileId)
CancelEdits(profileId) ==
    /\ pendingEdits' = withoutEdits(pendingEdits, profileId)
    /\ learnLast' = [op |-> "cancelEdits", profileId |-> profileId, result |-> "void",
                     hadEdits |-> Len(pendingEdits[profileId]) > 0, afterCancel |-> FALSE]
    /\ UNCHANGED << learning, learnedExamples, vectors, nextId >>
    /\ UNCHANGED << orchVars, callVars, bgVars, mergeVars, vecVars, matchVars, serviceVars >>

\* addLearnedExample(profileId, formSignature, fieldMappings) for a stored profile
AddLearnedExample(profileId, target, value, embedOk) ==
    /\ profileId \in ProfileIds
    /\ nextId <= MaxExamples
    /\ LET field == FormFields(target[1])[target[2]]
           example == [id |-> nextId, timestamp |-> nextId, formId |-> target[1],
                       fieldMappings |-> << Mapping(field, value, 95, "learned") >>,
                       source |-> "explicit_save"]
       IN StoreExample(profileId, example, embedOk)
    /\ learnLast' = NoLearnCall
    /\ UNCHANGED << learning, pendingEdits >>
    /\ UNCHANGED << orchVars, callVars, bgVars, mergeVars, vecVars, matchVars, serviceVars >>

\* `profile.learnedExamples.filter(e => e.id !== exampleId)`
withoutExample(examples, exampleId) ==
    LET isOther(e) == e.id # exampleId IN SelectSeq(examples, isOther)

\* removeLearnedExample(profileId, exampleId) for a stored profile: the profile is
\* updated with the filtered list, and the vector index is not touched
RemoveLearnedExample(profileId, exampleId) ==
    /\ profileId \in ProfileIds
    /\ learnedExamples' = [learnedExamples EXCEPT ![profileId] =
                              withoutExample(@, exampleId)]
    /\ learnLast' = NoLearnCall
    /\ UNCHANGED << learning, pendingEdits, vectors, nextId >>
    /\ UNCHANGED << orchVars, callVars, bgVars, mergeVars, vecVars, matchVars, serviceVars >>

\* The limit ProfileService.addLearnedExample enforces: `learnedExamples.length > 100`
ProfileServiceLimit == 100

\* `if (learnedExamples.length > 100) learnedExamples.splice(100)`
spliceAtLimit(examples) ==
    IF Len(examples) > ProfileServiceLimit THEN SubSeq(examples, 1, ProfileServiceLimit)
    ELSE examples

\* ProfileService.addLearnedExample(profileId, example) for a stored profile: the
\* example is put first, the list is cut at the limit, and nothing is ingested
ProfileServiceAddLearnedExample(profileId, target, value) ==
    /\ profileId \in ProfileIds
    /\ nextId <= MaxExamples
    /\ LET field == FormFields(target[1])[target[2]]
           learnedExample == [id |-> nextId, timestamp |-> nextId, formId |-> target[1],
                              fieldMappings |-> << Mapping(field, value, 95, "learned") >>,
                              source |-> "explicit_save"]
       IN learnedExamples' = [learnedExamples EXCEPT ![profileId] =
                                 spliceAtLimit(<< learnedExample >> \o @)]
    /\ nextId' = nextId + 1
    /\ learnLast' = NoLearnCall
    /\ UNCHANGED << learning, pendingEdits, vectors >>
    /\ UNCHANGED << orchVars, callVars, bgVars, mergeVars, vecVars, matchVars, serviceVars >>

(***************************************************************************)
(* mergeWithStaticMappings applied to drawn arguments.                     *)
(***************************************************************************)

\* How many mappings each argument list holds at most
MaxMerge == 2

MergeFields == << fEmail, fBio, fFirst >>
MergeConfidences == {70, 95, 100}

\* The lists of at most MaxMerge mappings with this source, one per field at most
MappingLists(source) ==
    UNION { { [i \in 1..n |-> Mapping(MergeFields[ix[i]], source \o "-value", cf[i], source)] :
                ix \in { f \in [1..n -> 1..Len(MergeFields)] :
                           \A i, j \in 1..n : i # j => f[i] # f[j] },
                cf \in [1..n -> MergeConfidences] } : n \in 0..MaxMerge }

NotMerged == [done |-> FALSE, mappings |-> << >>]

\* responseValidator.mergeWithStaticMappings(llmMappings, staticMappings)
Merge ==
    /\ ~mergeOut.done
    /\ mergeOut' = [done |-> TRUE,
                    mappings |-> mergeWithStaticMappings(mergeIn.llm, mergeIn.static)]
    /\ UNCHANGED << mergeIn, orchVars, callVars, bgVars, learnVars, vecVars, matchVars, serviceVars >>

(***************************************************************************)
(* VectorStore (VectorStore.ts) over the `vectors` object store of         *)
(* StorageService, and RAGEngine.ingestKnowledgeBase.  Each call runs to   *)
(* its end before the next one starts.                                     *)
(***************************************************************************)

\* How many entries upsertBatch is called with at most
MaxBatch == 2

\* How many chunks a knowledge base is cut into at most
MaxChunks == 2

VecProfiles == {"p1", "p2"}

\* The ids of the entries callers upsert, numbered in their key order
VecIds == {1, 2}

\* The embedding of the entry with an id, and the embeddings of the queries
EmbeddingOf(id) == IF id = 1 THEN << 1, 0 >> ELSE << 0, 1 >>
QueryEmbeddings == { << 1, 0 >> }

\* search's thresholds, in hundredths, and its topK values
Thresholds == {0, 80}
TopKs == {1, 5}

SourceTypes == {"document", "knowledge_base"}

\* The entries callers upsert
VecEntries ==
    { [id |-> id, profileId |-> p, sourceType |-> "document", embedding |-> EmbeddingOf(id)] :
        id \in VecIds, p \in VecProfiles }

\* upsertBatch's arguments: entries with different ids
Batches ==
    UNION { { es \in [1..n -> VecEntries] : \A i, j \in 1..n : i # j => es[i].id # es[j].id } :
              n \in 1..MaxBatch }

\* The position of a profile among the profiles
ProfileIndex(profileId) == IF profileId = "p1" THEN 1 ELSE 2

\* ingestKnowledgeBase's entry for chunk idx: its id `${profileId}_kb_${idx}_...`
\* sorts after the ids above, by profile and then by chunk
KbEntry(profileId, idx) ==
    [id |-> 10 * ProfileIndex(profileId) + idx, profileId |-> profileId,
     sourceType |-> "knowledge_base", embedding |-> << 1, 1 >>]

\* No array cached for the profile
NotCached == [cached |-> FALSE, vectors |-> << >>]

\* The entries of a set in key order, as IDBIndex.getAll returns them
RECURSIVE InKeyOrder(_)
InKeyOrder(S) ==
    IF S = {} THEN << >>
    ELSE LET first == CHOOSE v \in S : \A w \in S : v.id <= w.id
         IN << first >> \o InKeyOrder(S \ {first})

\* storageService.getVectorsByProfile(profileId)
getVectorsByProfile(storage, profileId) ==
    InKeyOrder({ v \in storage : v.profileId = profileId })

\* storageService.saveVector(vector): IDBObjectStore.put under keyPath id
saveVector(storage, vector) == { v \in storage : v.id # vector.id } \cup {vector}

RECURSIVE saveVectors(_, _)
\* `for (const entry of entries) await storageService.saveVector(entry)`
saveVectors(storage, entries) ==
    IF Len(entries) = 0 THEN storage
    ELSE saveVectors(saveVector(storage, entries[1]), Tail(entries))

\* storageService.deleteVectorsByProfile(profileId)
deleteVectorsByProfile(storage, profileId) == { v \in storage : v.profileId # profileId }

\* What getVectors(profileId) returns
getVectors(storage, cache, profileId) ==
    IF cache[profileId].cached THEN cache[profileId].vectors
    ELSE getVectorsByProfile(storage, profileId)

\* The cache after getVectors(profileId)
cacheAfterGet(storage, cache, profileId) ==
    [cache EXCEPT ![profileId] =
        [cached |-> TRUE, vectors |-> getVectors(storage, cache, profileId)]]

\* A cache that keeps the arrays of the profiles written to
cacheKept(cache, profiles) == cache

\* `this.cache.delete(profileId)` for each profile of a set
cacheWithout(cache, profiles) ==
    [p \in VecProfiles |-> IF p \in profiles THEN NotCached ELSE cache[p]]

RECURSIVE Sum(_, _)
Sum(f, n) == IF n = 0 THEN 0 ELSE f[n] + Sum(f, n - 1)

\* cosineSimilarity(a, b) as the pair [num, den2]: num / sqrt(den2)
cosineSimilarity(a, b) ==
    IF Len(a) # Len(b) THEN [num |-> 0, den2 |-> 1]
    ELSE LET dotProduct == Sum([i \in 1..Len(a) |-> a[i] * b[i]], Len(a))
             normA == Sum([i \in 1..Len(a) |-> a[i] * a[i]], Len(a))
             normB == Sum([i \in 1..Len(a) |-> b[i] * b[i]], Len(a))
         IN IF normA * normB = 0 THEN [num |-> 0, den2 |-> 1]
            ELSE [num |-> dotProduct, den2 |-> normA * normB]

\* x >= y for two similarities
SimGE(x, y) ==
    IF x.num >= 0 /\ y.num < 0 THEN TRUE
    ELSE IF x.num < 0 /\ y.num >= 0 THEN FALSE
    ELSE IF x.num >= 0 THEN x.num * x.num * y.den2 >= y.num * y.num * x.den2
    ELSE x.num * x.num * y.den2 <= y.num * y.num * x.den2

\* A filter that drops the results whose similarity equals the threshold
aboveThresholdStrictly(similarity, threshold) ==
    ~SimGE([num |-> threshold, den2 |-> 10000], similarity)

\* `r.similarity >= threshold`
aboveThreshold(similarity, threshold) ==
    SimGE(similarity, [num |-> threshold, den2 |-> 10000])

\* One result put into a list sorted by `b.similarity - a.similarity`, after its equals
RECURSIVE insertBySimilarity(_, _)
insertBySimilarity(sorted, r) ==
    IF Len(sorted) = 0 THEN << r >>
    ELSE IF SimGE(sorted[1].similarity, r.similarity)
    THEN << sorted[1] >> \o insertBySimilarity(Tail(sorted), r)
    ELSE << r >> \o sorted

\* Array.prototype.sort((a, b) => b.similarity - a.similarity): stable
RECURSIVE sortBySimilarity(_, _)
sortBySimilarity(results, sorted) ==
    IF Len(results) = 0 THEN sorted
    ELSE sortBySimilarity(Tail(results), insertBySimilarity(sorted, results[1]))

\* Array.prototype.slice(0, topK)
Truncate(seq, topK) == SubSeq(seq, 1, IF Len(seq) < topK THEN Len(seq) ELSE topK)

\* search(profileId, queryEmbedding, topK, threshold) over what getVectors returns
search(entries, queryEmbedding, topK, threshold) ==
    LET results == [i \in 1..Len(entries) |->
                      [entry |-> entries[i],
                       similarity |-> cosineSimilarity(queryEmbedding, entries[i].embedding)]]
        keep(r) == aboveThreshold(r.similarity, threshold)
    IN Truncate(sortBySimilarity(SelectSeq(results, keep), << >>), topK)

\* The last call: the profiles it was addressed to and, of a search, the arguments
\* and the result
Called(op, profiles) ==
    [op |-> IF op = "search" THEN "search" ELSE "other", profiles |-> profiles,
     query |-> << >>, topK |-> 0, threshold |-> 0, result |-> << >>]

NoCall == Called("none", {})
NoPair == [stage |-> "none", profileId |-> "", stored |-> {}, returned |-> {}]

\* The entries of a sequence
Range(seq) == { seq[i] : i \in 1..Len(seq) }

\* The profile's vectors of the kinds other than knowledge_base, stored and returned
OtherKinds(S) == { v \in S : v.sourceType # "knowledge_base" }

\* getVectors(profileId)
GetVectors(profileId) ==
    /\ vsCache' = cacheAfterGet(vsStorage, vsCache, profileId)
    /\ vsLast' = Called("getVectors", {profileId})
    /\ vsPair' = NoPair
    /\ UNCHANGED vsStorage
    /\ UNCHANGED << orchVars, callVars, bgVars, learnVars, mergeVars, matchVars, serviceVars >>

\* search(profileId, queryEmbedding, topK, threshold)
Search(profileId, queryEmbedding, topK, threshold) ==
    /\ vsCache' = cacheAfterGet(vsStorage, vsCache, profileId)
    /\ vsLast' = [Called("search", {profileId}) EXCEPT
                    !.query = queryEmbedding, !.topK = topK, !.threshold = threshold,
                    !.result = search(getVectors(vsStorage, vsCache, profileId),
                                      queryEmbedding, topK, threshold)]
    /\ vsPair' = NoPair
    /\ UNCHANGED vsStorage
    /\ UNCHANGED << orchVars, callVars, bgVars, learnVars, mergeVars, matchVars, serviceVars >>

\* The cached array after upsert's findIndex / replace / push
cachedUpsert(entries, entry) ==
    IF \E i \in 1..Len(entries) : entries[i].id = entry.id
    THEN [i \in 1..Len(entries) |->
            IF i = Min({ j \in 1..Len(entries) : entries[j].id = entry.id })
            THEN entry ELSE entries[i]]
    ELSE Append(entries, entry)

\* upsert(entry)
Upsert(entry) ==
    /\ vsStorage' = saveVector(vsStorage, entry)
    /\ vsCache' = IF vsCache[entry.profileId].cached
                  THEN [vsCache EXCEPT ![entry.profileId].vectors = cachedUpsert(@, entry)]
                  ELSE vsCache
    /\ vsLast' = Called("upsert", {entry.profileId})
    /\ vsPair' = NoPair
    /\ UNCHANGED << orchVars, callVars, bgVars, learnVars, mergeVars, matchVars, serviceVars >>

\* upsertBatch(entries) on a storage and a cache: << storage, cache >> afterwards
upsertBatch(storage, cache, entries) ==
    << saveVectors(storage, entries),
       cacheWithout(cache, { entries[i].profileId : i \in 1..Len(entries) }) >>

\* upsertBatch(entries)
UpsertBatch(entries) ==
    /\ vsStorage' = upsertBatch(vsStorage, vsCache, entries)[1]
    /\ vsCache' = upsertBatch(vsStorage, vsCache, entries)[2]
    /\ vsLast' = Called("upsertBatch", { entries[i].profileId : i \in 1..Len(entries) })
    /\ vsPair' = NoPair
    /\ UNCHANGED << orchVars, callVars, bgVars, learnVars, mergeVars, matchVars, serviceVars >>

\* The cached array after delete's findIndex / splice
cachedDelete(entries, id) ==
    IF \E i \in 1..Len(entries) : entries[i].id = id
    THEN LET index == Min({ j \in 1..Len(entries) : entries[j].id = id })
         IN SubSeq(entries, 1, index - 1) \o SubSeq(entries, index + 1, Len(entries))
    ELSE entries

\* delete(id, profileId): the cached array only
Delete(id, profileId) ==
    /\ vsCache' = IF vsCache[profileId].cached
                  THEN [vsCache EXCEPT ![profileId].vectors = cachedDelete(@, id)]
                  ELSE vsCache
    /\ vsLast' = Called("delete", {profileId})
    /\ vsPair' = NoPair
    /\ UNCHANGED vsStorage
    /\ UNCHANGED << orchVars, callVars, bgVars, learnVars, mergeVars, matchVars, serviceVars >>

\* deleteByProfile(profileId)
DeleteByProfile(profileId) ==
    /\ vsStorage' = deleteVectorsByProfile(vsStorage, profileId)
    /\ vsCache' = cacheWithout(vsCache, {profileId})
    /\ vsLast' = Called("deleteByProfile", {profileId})
    /\ vsPair' = NoPair
    /\ UNCHANGED << orchVars, callVars, bgVars, learnVars, mergeVars, matchVars, serviceVars >>

\* ProfileService.delete(id): the profile's vectors are deleted from storage
\* directly, then the profile
ProfileServiceDelete(profileId) ==
    /\ vsStorage' = deleteVectorsByProfile(vsStorage, profileId)
    /\ vsLast' = Called("profileService.delete", {profileId})
    /\ vsPair' = NoPair
    /\ UNCHANGED vsCache
    /\ UNCHANGED << orchVars, callVars, bgVars, learnVars, mergeVars, matchVars, serviceVars >>

\* clearCache()
ClearCache ==
    /\ vsCache' = [p \in VecProfiles |-> NotCached]
    /\ vsLast' = Called("clearCache", VecProfiles)
    /\ vsPair' = NoPair
    /\ UNCHANGED vsStorage
    /\ UNCHANGED << orchVars, callVars, bgVars, learnVars, mergeVars, matchVars, serviceVars >>

\* deleteBySourceType, given the entries that remain: << storage, cache >> afterwards
rewriteProfile(storage, cache, profileId, remaining) ==
    IF Len(remaining) > 0
    THEN upsertBatch(deleteVectorsByProfile(storage, profileId),
                     cacheAfterGet(storage, cache, profileId), remaining)
    ELSE << deleteVectorsByProfile(storage, profileId), cacheWithout(cache, {profileId}) >>

\* deleteBySourceType(profileId, sourceType) on a storage and a cache
deleteBySourceType(storage, cache, profileId, sourceType) ==
    LET keep(v) == v.sourceType # sourceType
    IN rewriteProfile(storage, cache, profileId,
                      SelectSeq(getVectors(storage, cache, profileId), keep))

\* deleteBySourceType(profileId, sourceType)
DeleteBySourceType(profileId, sourceType) ==
    /\ vsStorage' = deleteBySourceType(vsStorage, vsCache, profileId, sourceType)[1]
    /\ vsCache' = deleteBySourceType(vsStorage, vsCache, profileId, sourceType)[2]
    /\ vsLast' = Called("deleteBySourceType", {profileId})
    /\ vsPair' = IF /\ vsPair.stage = "ingested" /\ vsPair.profileId = profileId
                    /\ sourceType = "knowledge_base"
                 THEN [vsPair EXCEPT !.stage = "deleted"]
                 ELSE NoPair
    /\ UNCHANGED << orchVars, callVars, bgVars, learnVars, mergeVars, matchVars, serviceVars >>

\* ingestKnowledgeBase after its deleteBySourceType, on what that left
ingestChunks(cleared, profileId, chunks, embedOk) ==
    IF chunks = 0 \/ ~embedOk THEN cleared
    ELSE upsertBatch(cleared[1], cleared[2], [idx \in 1..chunks |-> KbEntry(profileId, idx)])

\* ingestKnowledgeBase(profileId, knowledgeBase): chunks is the number of chunks of
\* the text (0: blank), embedOk whether embedBatch resolves
IngestKnowledgeBase(profileId, chunks, embedOk) ==
    /\ vsStorage' = ingestChunks(deleteBySourceType(vsStorage, vsCache, profileId,
                                                    "knowledge_base"),
                                 profileId, chunks, embedOk)[1]
    /\ vsCache' = ingestChunks(deleteBySourceType(vsStorage, vsCache, profileId,
                                                  "knowledge_base"),
                               profileId, chunks, embedOk)[2]
    /\ vsLast' = Called("ingestKnowledgeBase", {profileId})
    /\ vsPair' = [stage |-> "ingested", profileId |-> profileId,
                  stored |-> OtherKinds({ v \in vsStorage : v.profileId = profileId }),
                  returned |-> OtherKinds(Range(getVectors(vsStorage, vsCache, profileId)))]
    /\ UNCHANGED << orchVars, callVars, bgVars, learnVars, mergeVars, matchVars, serviceVars >>

(***************************************************************************)
(* CacheService (CacheService.ts) over StorageService's cache store        *)
(* (getCache, setCache).  Time is counted in ticks; the service is         *)
(* constructed with a TTL of CacheTtl ticks.                               *)
(***************************************************************************)

\* The TTL the service is constructed with, in ticks
CacheTtl == 2

\* How far the clock runs
MaxClock == 5

\* How many hits one entry counts at most
MaxHits == 3

\* buildCacheKey's results for the fills that are cached
CacheKeys ==
    { buildCacheKey(FormDomain(f), FormFields(f), "p1") : f \in {"formA", "formB"} }

NoEntry == [present |-> FALSE, createdAt |-> 0, hitCount |-> 0, expiresAt |-> 0]

\* setCache(key, value, ttlMs): `expiresAt: Date.now() + ttlMs`; of the cached
\* response the creation time and the hit count are kept
setCache(db, key, createdAt, hitCount, ttl, now) ==
    [db EXCEPT ![key] = [present |-> TRUE, createdAt |-> createdAt, hitCount |-> hitCount,
                         expiresAt |-> now + ttl]]

\* getCache's test `entry.expiresAt < Date.now()`
isExpired(entry, now) == entry.expiresAt < now

\* getCache(key): the entry, or NoEntry when there is none or it has expired
getCache(db, key, now) ==
    IF db[key].present /\ ~isExpired(db[key], now) THEN db[key] ELSE NoEntry

\* The store after getCache(key), which deletes an expired entry
afterGetCache(db, key, now) ==
    IF db[key].present /\ isExpired(db[key], now) THEN [db EXCEPT ![key] = NoEntry] ELSE db

\* The record of a get: the response returned (hit) and when
Got(key, hit, createdAt, now) ==
    [op |-> "get", key |-> key, hit |-> hit, createdAt |-> createdAt, at |-> now]

NoGet == [op |-> "none", key |-> [profileId |-> "", domain |-> "", structure |-> {}],
          hit |-> FALSE, createdAt |-> 0, at |-> 0]

\* A call of init, get, set, invalidate or cleanExpired on a service whose init()
\* has not returned: `await this.init()`
CacheInitCall ==
    /\ ~cacheService.initialized
    /\ cacheService.at = "idle"
    /\ cacheService' = [cacheService EXCEPT !.at = "init"]
    /\ UNCHANGED << cacheDb, cacheNow, cacheLast >>
    /\ UNCHANGED notCache

\* init, `initialized` being false: storageService.init() resolves and init awaits
\* cleanExpired, before the line that sets `initialized`
InitCleansExpired ==
    /\ cacheService.at = "init"
    /\ ~cacheService.initialized
    /\ cacheService' = [cacheService EXCEPT !.at = "cleanExpired"]
    /\ UNCHANGED << cacheDb, cacheNow, cacheLast >>
    /\ UNCHANGED notCache

\* cleanExpired: its first statement awaits init again
CleanExpiredInits ==
    /\ cacheService.at = "cleanExpired"
    /\ cacheService' = [cacheService EXCEPT !.at = "init"]
    /\ UNCHANGED << cacheDb, cacheNow, cacheLast >>
    /\ UNCHANGED notCache

\* CacheService.set(formSignature, profileId, mappings, tokensUsed), past init
CacheSet(key) ==
    /\ cacheService.initialized
    /\ cacheDb' = setCache(cacheDb, key, cacheNow, 0, CacheTtl, cacheNow)
    /\ cacheLast' = NoGet
    /\ UNCHANGED << cacheService, cacheNow >>
    /\ UNCHANGED notCache

\* CacheService.get(formSignature, profileId), past init: on a hit the response
\* is stored again with its hit count raised
CacheGet(key) ==
    /\ cacheService.initialized
    /\ LET cached == getCache(cacheDb, key, cacheNow)
       IN IF cached.present
          THEN /\ cached.hitCount < MaxHits
               /\ cacheDb' = setCache(cacheDb, key, cached.createdAt, cached.hitCount + 1,
                                      CacheTtl, cacheNow)
               /\ cacheLast' = Got(key, TRUE, cached.createdAt, cacheNow)
          ELSE /\ cacheDb' = afterGetCache(cacheDb, key, cacheNow)
               /\ cacheLast' = Got(key, FALSE, 0, cacheNow)
    /\ UNCHANGED << cacheService, cacheNow >>
    /\ UNCHANGED notCache

\* Time passes
CacheTick ==
    /\ cacheNow < MaxClock
    /\ cacheNow' = cacheNow + 1
    /\ UNCHANGED << cacheService, cacheDb, cacheLast >>
    /\ UNCHANGED notCache

(***************************************************************************)
(* OpenRouterClient.makeRequest (CacheService.ts): the retry loop around   *)
(* fetch, and parseErrorResponse.                                          *)
(***************************************************************************)

MAX_RETRIES == 3
RETRY_DELAY_MS == 1000
RETRY_BACKOFF_MULTIPLIER == 2

Endpoints == {"/chat/completions", "/embeddings"}

\* The HTTP statuses of the replies that are not ok
ErrorStatuses == {400, 401, 403, 404, 429, 500, 503}

\* error.message of the reply's body ("" when the body has none)
ErrorMessages == {"", "Content policy violation"}

\* How fetch settles: a reply that is ok (whose body parses or not), a reply
\* that is not ok, or a rejection
FetchOutcomes ==
    { [kind |-> "ok", status |-> 200, message |-> ""],
      [kind |-> "badJson", status |-> 200, message |-> ""],
      [kind |-> "network", status |-> 0, message |-> ""] }
    \cup UNION { { [kind |-> "http", status |-> st, message |-> m] :
                       m \in IF st = 400 THEN ErrorMessages ELSE {""} } :
                   st \in ErrorStatuses }

OpenRouterError(code, status, retryable) ==
    [isOpenRouterError |-> TRUE, code |-> code, status |-> status, retryable |-> retryable]

\* What the catch block makes of anything else that is thrown
OtherError == [isOpenRouterError |-> FALSE, code |-> "", status |-> 0, retryable |-> FALSE]

NoError == [isOpenRouterError |-> FALSE, code |-> "none", status |-> 0, retryable |-> FALSE]

\* The classification that holds every failed reply for transient
parseErrorResponseAllRetryable(status, message) == OpenRouterError("UNKNOWN", status, TRUE)

\* parseErrorResponse(response)
parseErrorResponse(status, message) ==
    LET errorMessage == ToLowerCase(IF message # "" THEN message ELSE "HTTP")
    IN CASE status = 401 -> OpenRouterError("INVALID_API_KEY", status, FALSE)
         [] status = 429 -> OpenRouterError("RATE_LIMITED", status, TRUE)
         [] status = 404 -> OpenRouterError("MODEL_NOT_FOUND", status, FALSE)
         [] status = 400 ->
               IF Includes(errorMessage, "context length")
               THEN OpenRouterError("CONTEXT_LENGTH_EXCEEDED", status, FALSE)
               ELSE IF Includes(errorMessage, "content")
               THEN OpenRouterError("CONTENT_FILTERED", status, FALSE)
               ELSE OpenRouterError("UNKNOWN", status, FALSE)
         [] status \in {500, 502, 503, 504} -> OpenRouterError("SERVER_ERROR", status, TRUE)
         [] OTHER -> OpenRouterError("UNKNOWN", status, FALSE)

RECURSIVE Pow(_, _)
\* Math.pow on naturals
Pow(base, exponent) == IF exponent = 0 THEN 1 ELSE base * Pow(base, exponent - 1)

\* The same delay before every retry
retryDelayFlat(attempt) == RETRY_DELAY_MS

\* The delay before the attempt that follows `attempt`
retryDelay(attempt) == RETRY_DELAY_MS * Pow(RETRY_BACKOFF_MULTIPLIER, attempt)

NoRequest ==
    [pc |-> "idle", endpoint |-> "", attempt |-> 0, lastError |-> NoError,
     fetches |-> << >>, sleeps |-> << >>, thrown |-> NoError]

\* The error the attempt leaves behind, and whether it is thrown at once
attemptError(outcome) ==
    IF outcome.kind = "http" THEN parseErrorResponse(outcome.status, outcome.message)
    ELSE OtherError

\* makeRequest(endpoint, body) is called: the first fetch is issued
MakeRequest(endpoint) ==
    /\ req.pc = "idle"
    /\ req' = [NoRequest EXCEPT !.pc = "fetch", !.endpoint = endpoint,
                                !.fetches = << "pending" >>]
    /\ UNCHANGED notReq

\* The fetch of this attempt settles, and the loop runs to its next await, its
\* return or its throw
FetchSettles(outcome) ==
    /\ req.pc = "fetch"
    /\ LET error == attemptError(outcome)
           settled == [req EXCEPT !.fetches[req.attempt + 1] = outcome.kind]
       IN IF outcome.kind = "ok"
          THEN req' = [settled EXCEPT !.pc = "returned"]
          ELSE IF error.isOpenRouterError /\ ~error.retryable
          THEN req' = [settled EXCEPT !.pc = "raised", !.thrown = error]
          ELSE IF req.attempt < MAX_RETRIES - 1
          THEN req' = [settled EXCEPT !.pc = "sleep", !.lastError = error,
                                      !.sleeps = Append(@, retryDelay(req.attempt))]
          ELSE req' = [settled EXCEPT !.pc = "raised", !.lastError = error,
                                      !.thrown = error]
    /\ UNCHANGED notReq

\* The sleep is over: the next iteration issues its fetch
SleepDone ==
    /\ req.pc = "sleep"
    /\ req' = [req EXCEPT !.pc = "fetch", !.attempt = @ + 1,
                          !.fetches = Append(@, "pending")]
    /\ UNCHANGED notReq

(***************************************************************************)
(* Initial states and specifications.                                      *)
(***************************************************************************)

\* The singleton after the service worker's initialize(): DEFAULT_CONFIG, both
\* init() calls done
OrchReady ==
    /\ orch = [initialized |-> TRUE, fallbackToStatic |-> TRUE]
    /\ client \in { [initialized |-> TRUE, apiKey |-> k] : k \in BOOLEAN }
    /\ storedApiKey = client.apiKey
    /\ cacheStore = {}

CallIdle ==
    /\ call = IdleCall
    /\ lastFill = NoFill

BgIdle ==
    /\ state = FillState("IDLE")
    /\ stateWriter = 0
    /\ session = Absent
    /\ activeProfileId \in {NoProfile, "p1"}
    /\ currentFormSignature = NoForm
    /\ pc = [h \in Handlers |-> "new"]
    /\ loc = [h \in Handlers |-> InitLoc]
    /\ outbox = << >>
    /\ started = 0
    /\ cancelled = {}

\* LearningService's DEFAULT_CONFIG
LearnIdle ==
    /\ learning = [enabled |-> TRUE, minConfidenceToLearn |-> 95,
                   maxExamplesPerProfile |-> 100]
    /\ pendingEdits = [p \in LearnProfiles |-> << >>]
    /\ learnedExamples = [p \in ProfileIds |-> << >>]
    /\ vectors = {}
    /\ nextId = 1
    /\ learnLast = NoLearnCall

MergeIdle ==
    /\ mergeIn = [llm |-> << >>, static |-> << >>]
    /\ mergeOut = NotMerged

\* An empty object store and a VectorStore as constructed
VecIdle ==
    /\ vsStorage = {}
    /\ vsCache = [p \in VecProfiles |-> NotCached]
    /\ vsLast = NoCall
    /\ vsPair = NoPair

NotMatched == [done |-> FALSE, mappings |-> << >>]

\* A CacheService as constructed over an empty cache store
CacheIdle ==
    /\ cacheService = [initialized |-> FALSE, at |-> "idle"]
    /\ cacheDb = [k \in CacheKeys |-> NoEntry]
    /\ cacheNow = 0
    /\ cacheLast = NoGet

\* No request in progress
ReqIdle == req = NoRequest

\* How many callers use the VectorStore at the same time
MaxTasks == 2

Tasks == 1..MaxTasks

IdleTask == [op |-> "none", pc |-> "idle", profileId |-> "", sourceType |-> "",
             entries |-> << >>, i |-> 0]

\* No VectorStore call is in flight
ConcIdle ==
    /\ tasks = [t \in Tasks |-> IdleTask]
    /\ txQueue = << >>
    /\ calls = 0
    /\ raced = FALSE

NoSimilarity == [num |-> 0, den2 |-> 1]

NoEmbCall == [op |-> "none", raised |-> FALSE, mismatch |-> FALSE, hit |-> FALSE,
              similarity |-> NoSimilarity, results |-> << >>,
              evicted |-> << >>, lruAt |-> << >>,
              texts |-> << >>, embeddings |-> << >>, requests |-> << >>,
              query |-> << >>, candidates |-> << >>]

\* An EmbeddingService with nothing cached
EmbIdle ==
    /\ embeddingCache = << >>
    /\ embRecency = << >>
    /\ embLast = NoEmbCall

NoContext == [called |-> FALSE, results |-> << >>, maxTokens |-> 0,
              context |-> << >>, tokenEstimate |-> 0]

\* buildContext was not called
CtxIdle == ctxLast = NoContext

NoExec == [called |-> FALSE, mappings |-> << >>, found |-> << >>, outcome |-> << >>,
           filledCount |-> 0, errors |-> 0]

\* executeFill was not called
ExecIdle == execLast = NoExec

ServicesIdle == CacheIdle /\ ReqIdle /\ ConcIdle /\ EmbIdle /\ CtxIdle /\ ExecIdle

MatchIdle ==
    /\ matchIn = [fields |-> << >>, profileFields |-> << >>]
    /\ matchOut = NotMatched

\* The service worker with its handlers set up
Init ==
    /\ OrchReady
    /\ CallIdle
    /\ BgIdle
    /\ LearnIdle
    /\ MergeIdle
    /\ VecIdle
    /\ MatchIdle
    /\ ServicesIdle

Next ==
    \/ \E formId \in DetectedForms : FormDetected(formId)
    \/ \E h \in Handlers, p \in PayloadProfiles : TriggerFill(h, p)
    \/ \E h \in Handlers : GetByIdDone(h)
    \/ \E h \in Handlers, tabOk \in BOOLEAN : TabsQueryDone(h, tabOk)
    \/ \E h \in Handlers : Persist1Done(h)
    \/ \E h \in Handlers : FillDone(h)
    \/ \E h \in Handlers : Persist2Done(h)
    \/ \E h \in Handlers : FillProgress(h)
    \/ \E h \in Handlers : FillComplete(h)
    \/ \E h \in Handlers : FillError(h)
    \/ \E h \in Handlers : SendResolves(h)
    \/ \E h \in Handlers : SendRejects(h)
    \/ RequestCancel

Spec == Init /\ [][Next]_vars

\* The forms whose fields the Static Matcher covers in part for the profile in use
FillForms == {"formA", "formE"}

\* The service worker after SET_ACTIVE_PROFILE and a FORM_DETECTED of such a form
InitFill ==
    /\ OrchReady
    /\ CallIdle
    /\ state = FillState("DETECTING")
    /\ stateWriter = 0
    /\ session = "DETECTING"
    /\ activeProfileId \in ProfileIds
    /\ currentFormSignature \in FillForms
    /\ pc = [h \in Handlers |-> "new"]
    /\ loc = [h \in Handlers |-> InitLoc]
    /\ outbox = << >>
    /\ started = 0
    /\ cancelled = {}
    /\ LearnIdle
    /\ MergeIdle
    /\ VecIdle
    /\ MatchIdle
    /\ ServicesIdle

\* TRIGGER_FILL messages that name no profile, up to the end of each fill
NextFill ==
    \/ \E h \in Handlers : TriggerFill(h, NoProfile)
    \/ \E h \in Handlers : GetByIdDone(h)
    \/ \E h \in Handlers, tabOk \in BOOLEAN : TabsQueryDone(h, tabOk)
    \/ \E h \in Handlers : Persist1Done(h)
    \/ \E h \in Handlers : FillDone(h)
    \/ \E h \in Handlers : Persist2Done(h)
    \/ \E h \in Handlers : FillComplete(h)
    \/ \E h \in Handlers : SendResolves(h)

SpecFill == InitFill /\ [][NextFill]_vars

\* An LLMOrchestrator as constructed, with any configuration, called directly
InitOrch ==
    /\ orch \in { [initialized |-> FALSE, fallbackToStatic |-> f] : f \in BOOLEAN }
    /\ client \in [initialized : BOOLEAN, apiKey : BOOLEAN]
    /\ storedApiKey \in BOOLEAN
    /\ client.initialized /\ storedApiKey => client.apiKey
    /\ cacheStore = {}
    /\ CallIdle
    /\ BgIdle
    /\ activeProfileId = NoProfile
    /\ LearnIdle
    /\ MergeIdle
    /\ VecIdle
    /\ MatchIdle
    /\ ServicesIdle

NextOrch ==
    \/ \E formId \in FormIds, profileId \in ProfileIds, promptOk \in BOOLEAN :
          OrchFill(formId, profileId, promptOk)
    \/ \E ok \in BOOLEAN, promptOk \in BOOLEAN : OrchInitDone(ok, promptOk)
    \/ OrchChatDone
    \/ OrchReturn

SpecOrch == InitOrch /\ [][NextOrch]_vars

\* A LearningService as constructed, with any configuration
InitLearn ==
    /\ OrchReady
    /\ client.apiKey
    /\ CallIdle
    /\ BgIdle
    /\ activeProfileId = NoProfile
    /\ learning \in { [enabled |-> e, minConfidenceToLearn |-> 95,
                       maxExamplesPerProfile |-> m] : e \in BOOLEAN, m \in {1, 2, 100} }
    /\ pendingEdits = [p \in LearnProfiles |-> << >>]
    /\ learnedExamples = [p \in ProfileIds |-> << >>]
    /\ vectors = {}
    /\ nextId = 1
    /\ learnLast = NoLearnCall
    /\ MergeIdle
    /\ VecIdle
    /\ MatchIdle
    /\ ServicesIdle

NextLearn ==
    \/ \E p \in LearnProfiles, t \in EditTargets, c \in OriginalConfidences, v \in EditValues :
          RecordEdit(p, t, c, v)
    \/ \E p \in LearnProfiles, embedOk \in BOOLEAN : CommitEdits(p, embedOk)
    \/ \E p \in LearnProfiles : CancelEdits(p)
    \/ \E p \in LearnProfiles, t \in EditTargets, v \in EditValues, embedOk \in BOOLEAN :
          AddLearnedExample(p, t, v, embedOk)
    \/ \E p \in LearnProfiles, t \in EditTargets, v \in EditValues :
          ProfileServiceAddLearnedExample(p, t, v)
    \/ \E p \in LearnProfiles, id \in 1..MaxExamples : RemoveLearnedExample(p, id)

SpecLearn == InitLearn /\ [][NextLearn]_vars

\* mergeWithStaticMappings with its arguments drawn
InitMerge ==
    /\ OrchReady
    /\ client.apiKey
    /\ CallIdle
    /\ BgIdle
    /\ activeProfileId = NoProfile
    /\ LearnIdle
    /\ mergeIn \in [llm : MappingLists("llm"), static : MappingLists("static")]
    /\ mergeOut = NotMerged
    /\ VecIdle
    /\ MatchIdle
    /\ ServicesIdle

NextMerge == Merge

SpecMerge == InitMerge /\ [][NextMerge]_vars

\* The vector store over an empty object store, called by any caller
InitVec ==
    /\ OrchReady
    /\ client.apiKey
    /\ CallIdle
    /\ BgIdle
    /\ activeProfileId = NoProfile
    /\ LearnIdle
    /\ MergeIdle
    /\ VecIdle
    /\ MatchIdle
    /\ ServicesIdle

NextVec ==
    \/ \E p \in VecProfiles : GetVectors(p)
    \/ \E p \in VecProfiles, q \in QueryEmbeddings, k \in TopKs, t \in Thresholds :
          Search(p, q, k, t)
    \/ \E entry \in VecEntries : Upsert(entry)
    \/ \E entries \in Batches : UpsertBatch(entries)
    \/ \E id \in VecIds, p \in VecProfiles : Delete(id, p)
    \/ \E p \in VecProfiles : DeleteByProfile(p)
    \/ \E p \in VecProfiles, t \in SourceTypes : DeleteBySourceType(p, t)
    \/ \E p \in VecProfiles, chunks \in 0..MaxChunks, embedOk \in BOOLEAN :
          IngestKnowledgeBase(p, chunks, embedOk)
    \/ ClearCache

SpecVec == InitVec /\ [][NextVec]_vars

\* The vector store read and written by the background, and profiles deleted
\* through ProfileService
NextProfileDelete ==
    \/ \E p \in VecProfiles : GetVectors(p)
    \/ \E p \in VecProfiles, q \in QueryEmbeddings, k \in TopKs, t \in Thresholds :
          Search(p, q, k, t)
    \/ \E entry \in VecEntries : Upsert(entry)
    \/ \E p \in VecProfiles : DeleteByProfile(p)
    \/ \E p \in VecProfiles : ProfileServiceDelete(p)

SpecProfileDelete == InitVec /\ [][NextProfileDelete]_vars

(***************************************************************************)
(* VectorStore calls that overlap.  Every call runs up to the IndexedDB    *)
(* transaction it creates and goes on when its request succeeds, in the    *)
(* microtasks of that event.  Transactions on one object store run in      *)
(* creation order, and read-only ones next to each other run together.     *)
(***************************************************************************)

\* How many calls a behaviour makes at most
MaxCalls == 3

\* The profile the overlapping calls are addressed to
ConcProfile == "p1"

\* The entries the overlapping calls write
ConcEntries ==
    { [id |-> id, profileId |-> ConcProfile, sourceType |-> st, embedding |-> EmbeddingOf(id)] :
        id \in VecIds, st \in SourceTypes }

\* upsertBatch's arguments: entries with different ids
ConcBatches ==
    UNION { { es \in [1..n -> ConcEntries] : \A i, j \in 1..n : i # j => es[i].id # es[j].id } :
              n \in 1..MaxBatch }

NoVector == [id |-> 0, profileId |-> "", sourceType |-> "", embedding |-> << >>]

\* `db.transaction(STORES.VECTORS, mode)` with its one request
Tx(kind, owner, profileId, entry) ==
    [kind |-> kind, owner |-> owner, profileId |-> profileId, entry |-> entry]

\* A transaction may start: a read-only one when no readwrite one was created
\* before it, a readwrite one when none at all was
canStart(queue, i) ==
    IF queue[i].kind = "getAll" THEN \A j \in 1..(i - 1) : queue[j].kind = "getAll"
    ELSE i = 1

without(queue, i) == SubSeq(queue, 1, i - 1) \o SubSeq(queue, i + 1, Len(queue))

\* Another caller is in flight, one of the two in a load and the other in a write
Overlaps(t) ==
    \E u \in Tasks \ {t} :
        /\ tasks[u].pc # "idle"
        /\ (tasks[u].pc \in {"load", "dbstLoad"}) # (tasks[t].pc \in {"load", "dbstLoad"})

\* `vectors.filter(v => v.sourceType !== sourceType)`
remainingOf(loaded, sourceType) ==
    LET keep(v) == v.sourceType # sourceType
    IN SelectSeq(loaded, keep)

\* The caller that makes the next call: callers are alike, the first one not in a
\* call is taken
FreeSlot(t) == tasks[t].pc = "idle" /\ \A u \in 1..(t - 1) : tasks[u].pc # "idle"

ConcFrame ==
    UNCHANGED << vsLast, vsPair, orchVars, callVars, bgVars, learnVars, mergeVars, matchVars,
                 cacheVars, reqVars, embVars, ctxVars, execVars >>

\* getVectors(profileId) is called: the cached array, or the read of the store
CallGetVectors(t, profileId) ==
    /\ FreeSlot(t) /\ calls < MaxCalls
    /\ calls' = calls + 1
    /\ IF vsCache[profileId].cached
       THEN UNCHANGED << tasks, txQueue >>
       ELSE /\ tasks' = [tasks EXCEPT ![t] = [IdleTask EXCEPT !.op = "getVectors", !.pc = "load",
                                                             !.profileId = profileId]]
            /\ txQueue' = Append(txQueue, Tx("getAll", t, profileId, NoVector))
    /\ UNCHANGED << vsStorage, vsCache, raced >>
    /\ ConcFrame

\* getVectors' read succeeds: `this.cache.set(profileId, vectors)`
LoadDone(i) ==
    /\ i \in 1..Len(txQueue) /\ canStart(txQueue, i)
    /\ tasks[txQueue[i].owner].pc = "load"
    /\ vsCache' = [vsCache EXCEPT ![txQueue[i].profileId] =
                      [cached |-> TRUE,
                       vectors |-> getVectorsByProfile(vsStorage, txQueue[i].profileId)]]
    /\ tasks' = [tasks EXCEPT ![txQueue[i].owner] = IdleTask]
    /\ txQueue' = without(txQueue, i)
    /\ raced' = (raced \/ Overlaps(txQueue[i].owner))
    /\ UNCHANGED << vsStorage, calls >>
    /\ ConcFrame

\* upsert(entry) is called: `await storageService.saveVector(entry)`
CallUpsert(t, entry) ==
    /\ FreeSlot(t) /\ calls < MaxCalls
    /\ calls' = calls + 1
    /\ tasks' = [tasks EXCEPT ![t] = [IdleTask EXCEPT !.op = "upsert", !.pc = "save",
                                                     !.profileId = entry.profileId]]
    /\ txQueue' = Append(txQueue, Tx("put", t, entry.profileId, entry))
    /\ UNCHANGED << vsStorage, vsCache, raced >>
    /\ ConcFrame

\* upsert's put succeeds: the cached array, if there is one, takes the entry
UpsertSaved ==
    /\ Len(txQueue) > 0 /\ canStart(txQueue, 1)
    /\ tasks[txQueue[1].owner].pc = "save"
    /\ vsStorage' = saveVector(vsStorage, txQueue[1].entry)
    /\ vsCache' = IF vsCache[txQueue[1].profileId].cached
                  THEN [vsCache EXCEPT ![txQueue[1].profileId].vectors =
                                           cachedUpsert(@, txQueue[1].entry)]
                  ELSE vsCache
    /\ tasks' = [tasks EXCEPT ![txQueue[1].owner] = IdleTask]
    /\ txQueue' = Tail(txQueue)
    /\ raced' = (raced \/ Overlaps(txQueue[1].owner))
    /\ UNCHANGED calls
    /\ ConcFrame

\* upsertBatch(entries) is called: the first saveVector of its loop
CallUpsertBatch(t, entries) ==
    /\ FreeSlot(t) /\ calls < MaxCalls
    /\ calls' = calls + 1
    /\ tasks' = [tasks EXCEPT ![t] = [IdleTask EXCEPT !.op = "upsertBatch", !.pc = "batch",
                                                     !.profileId = entries[1].profileId,
                                                     !.entries = entries, !.i = 1]]
    /\ txQueue' = Append(txQueue, Tx("put", t, entries[1].profileId, entries[1]))
    /\ UNCHANGED << vsStorage, vsCache, raced >>
    /\ ConcFrame

\* A put of upsertBatch's loop succeeds: the next one, or after the last the
\* caches of the affected profiles are dropped
BatchSaved ==
    /\ Len(txQueue) > 0 /\ canStart(txQueue, 1)
    /\ tasks[txQueue[1].owner].pc = "batch"
    /\ LET t == txQueue[1].owner
           entries == tasks[t].entries
           i == tasks[t].i
       IN /\ vsStorage' = saveVector(vsStorage, txQueue[1].entry)
          /\ IF i < Len(entries)
             THEN /\ tasks' = [tasks EXCEPT ![t].i = i + 1]
                  /\ txQueue' = Append(Tail(txQueue),
                                       Tx("put", t, entries[i + 1].profileId, entries[i + 1]))
                  /\ UNCHANGED vsCache
             ELSE /\ tasks' = [tasks EXCEPT ![t] = IdleTask]
                  /\ txQueue' = Tail(txQueue)
                  /\ vsCache' = cacheWithout(vsCache,
                                             { entries[j].profileId : j \in 1..Len(entries) })
          /\ raced' = (raced \/ Overlaps(t))
    /\ UNCHANGED calls
    /\ ConcFrame

\* deleteBySourceType, once getVectors has returned: the entries to keep, and
\* `await storageService.deleteVectorsByProfile(profileId)`
dbstDelete(t, profileId, sourceType, loaded, queue) ==
    /\ tasks' = [tasks EXCEPT ![t] = [IdleTask EXCEPT !.op = "deleteBySourceType",
                                                     !.pc = "delete",
                                                     !.profileId = profileId,
                                                     !.sourceType = sourceType,
                                                     !.entries = remainingOf(loaded, sourceType)]]
    /\ txQueue' = Append(queue, Tx("deleteAll", t, profileId, NoVector))

\* deleteBySourceType(profileId, sourceType) is called: its getVectors
CallDeleteBySourceType(t, profileId, sourceType) ==
    /\ FreeSlot(t) /\ calls < MaxCalls
    /\ calls' = calls + 1
    /\ IF vsCache[profileId].cached
       THEN dbstDelete(t, profileId, sourceType, vsCache[profileId].vectors, txQueue)
       ELSE /\ tasks' = [tasks EXCEPT ![t] = [IdleTask EXCEPT !.op = "deleteBySourceType",
                                                             !.pc = "dbstLoad",
                                                             !.profileId = profileId,
                                                             !.sourceType = sourceType]]
            /\ txQueue' = Append(txQueue, Tx("getAll", t, profileId, NoVector))
    /\ UNCHANGED << vsStorage, vsCache, raced >>
    /\ ConcFrame

\* The read of deleteBySourceType's getVectors succeeds
DbstLoadDone(i) ==
    /\ i \in 1..Len(txQueue) /\ canStart(txQueue, i)
    /\ tasks[txQueue[i].owner].pc = "dbstLoad"
    /\ LET t == txQueue[i].owner
           loaded == getVectorsByProfile(vsStorage, txQueue[i].profileId)
       IN /\ vsCache' = [vsCache EXCEPT ![txQueue[i].profileId] =
                            [cached |-> TRUE, vectors |-> loaded]]
          /\ dbstDelete(t, tasks[t].profileId, tasks[t].sourceType, loaded, without(txQueue, i))
          /\ raced' = (raced \/ Overlaps(t))
    /\ UNCHANGED << vsStorage, calls >>
    /\ ConcFrame

\* deleteBySourceType's deleteVectorsByProfile succeeds: upsertBatch(remaining),
\* or the cache of the profile is dropped
ProfileDeleted ==
    /\ Len(txQueue) > 0 /\ canStart(txQueue, 1)
    /\ tasks[txQueue[1].owner].pc = "delete"
    /\ LET t == txQueue[1].owner
           remaining == tasks[t].entries
       IN /\ vsStorage' = deleteVectorsByProfile(vsStorage, txQueue[1].profileId)
          /\ IF Len(remaining) > 0
             THEN /\ tasks' = [tasks EXCEPT ![t].pc = "batch", ![t].i = 1]
                  /\ txQueue' = Append(Tail(txQueue),
                                       Tx("put", t, remaining[1].profileId, remaining[1]))
                  /\ UNCHANGED vsCache
             ELSE /\ tasks' = [tasks EXCEPT ![t] = IdleTask]
                  /\ txQueue' = Tail(txQueue)
                  /\ vsCache' = cacheWithout(vsCache, {txQueue[1].profileId})
          /\ raced' = (raced \/ Overlaps(t))
    /\ UNCHANGED calls
    /\ ConcFrame

InitConc == InitVec

NextConc ==
    \/ \E t \in Tasks : CallGetVectors(t, ConcProfile)
    \/ \E i \in 1..MaxTasks : LoadDone(i)
    \/ \E t \in Tasks, entry \in ConcEntries : CallUpsert(t, entry)
    \/ UpsertSaved
    \/ \E t \in Tasks, entries \in ConcBatches : CallUpsertBatch(t, entries)
    \/ BatchSaved
    \/ \E t \in Tasks, st \in SourceTypes : CallDeleteBySourceType(t, ConcProfile, st)
    \/ \E i \in 1..MaxTasks : DbstLoadDone(i)
    \/ ProfileDeleted

SpecConc == InitConc /\ [][NextConc]_vars

(***************************************************************************)
(* EmbeddingService: the embedding cache and the similarity computations.  *)
(* A text is the sequence of its char codes.                               *)
(***************************************************************************)

\* How many entries the embedding cache holds at most: MAX_CACHE_SIZE, which is 500
\* in the source
EmbCapacity == 2

\* How many texts a batch holds, and how many candidates findMostSimilar is given
MaxTexts == 2

\* "a", "b", and "Aa" and "BB", which hash alike
Texts == { << 97 >>, << 98 >>, << 65, 97 >>, << 66, 66 >> }

RECURSIVE hashFrom(_, _)
\* hashText's loop: `hash = ((hash << 5) - hash) + char; hash = hash & hash`, which
\* stays within 32 bits for the texts above
hashFrom(hash, text) ==
    IF Len(text) = 0 THEN hash
    ELSE hashFrom((hash * 32 - hash) + text[1], Tail(text))

Base36Digits == "0123456789abcdefghijklmnopqrstuvwxyz"

RECURSIVE toString36(_)
\* Number.prototype.toString(36)
toString36(n) ==
    IF n < 0 THEN "-" \o toString36(0 - n)
    ELSE IF n < 36 THEN SubSeq(Base36Digits, n + 1, n + 1)
    ELSE toString36(n \div 36) \o SubSeq(Base36Digits, (n % 36) + 1, (n % 36) + 1)

\* hashText(text)
hashText(text) == toString36(hashFrom(0, text))

\* hashText for each of the texts
HashOf == [text \in Texts |-> hashText(text)]

\* The embedding the API returns for a text
ApiEmbedding(text) == << text[1], Len(text) >>

\* The position of a key in the Map, 0 when it has none
cacheIndex(cache, key) ==
    IF \E i \in 1..Len(cache) : cache[i].key = key
    THEN CHOOSE i \in 1..Len(cache) : cache[i].key = key
    ELSE 0

\* Map.prototype.set: a present key keeps its place, a new one goes last
embCacheSet(cache, key, embedding) ==
    IF cacheIndex(cache, key) > 0
    THEN [cache EXCEPT ![cacheIndex(cache, key)].embedding = embedding]
    ELSE Append(cache, [key |-> key, embedding |-> embedding])

\* A key becomes the most recently used one
touch(recency, key) ==
    LET other(k) == k # key
    IN Append(SelectSeq(recency, other), key)

\* The cache during a call, with the history of the call: the keys it evicted and,
\* for each, the least recently used key at that moment
EmbState(cache, recency, evicted, lruAt) ==
    [cache |-> cache, recency |-> recency, evicted |-> evicted, lruAt |-> lruAt]

\* cacheEmbedding(text, embedding): at capacity the first key of the Map is deleted
cacheEmbedding(es, text, embedding) ==
    LET cacheKey == HashOf[text]
        full == Len(es.cache) >= EmbCapacity
        firstKey == es.cache[1].key
        kept == IF full THEN Tail(es.cache) ELSE es.cache
        known == IF full
                 THEN LET other(k) == k # firstKey IN SelectSeq(es.recency, other)
                 ELSE es.recency
    IN EmbState(embCacheSet(kept, cacheKey, embedding),
                touch(known, cacheKey),
                IF full THEN Append(es.evicted, firstKey) ELSE es.evicted,
                IF full THEN Append(es.lruAt, es.recency[1]) ELSE es.lruAt)

\* The state a call starts from
EmbNow == EmbState(embeddingCache, embRecency, << >>, << >>)

EmbAfter(es, op, raised, hit) ==
    /\ embeddingCache' = es.cache
    /\ embRecency' = es.recency
    /\ embLast' = [NoEmbCall EXCEPT !.op = op, !.raised = raised, !.hit = hit,
                                   !.evicted = es.evicted, !.lruAt = es.lruAt]
    /\ UNCHANGED notEmb

\* embed(text, useCache): apiOk, createEmbedding resolves with an embedding
Embed(text, useCache, apiOk) ==
    IF useCache /\ cacheIndex(embeddingCache, HashOf[text]) > 0
    THEN EmbAfter(EmbState(embeddingCache, touch(embRecency, HashOf[text]), << >>, << >>),
                  "embed", FALSE, TRUE)
    ELSE IF ~apiOk THEN EmbAfter(EmbNow, "embed", TRUE, FALSE)
    ELSE IF useCache
    THEN EmbAfter(cacheEmbedding(EmbNow, text, ApiEmbedding(text)), "embed", FALSE, FALSE)
    ELSE EmbAfter(EmbNow, "embed", FALSE, FALSE)

RECURSIVE touchHits(_, _, _)
\* embedBatch's first loop: the cached texts are uses of their keys
touchHits(cache, recency, texts) ==
    IF Len(texts) = 0 THEN recency
    ELSE touchHits(cache,
                   IF cacheIndex(cache, HashOf[texts[1]]) > 0
                   THEN touch(recency, HashOf[texts[1]]) ELSE recency,
                   Tail(texts))

RECURSIVE cacheAll(_, _)
\* embedBatch's `this.cacheEmbedding(text, embedding)` for each text embedded
cacheAll(es, texts) ==
    IF Len(texts) = 0 THEN es
    ELSE cacheAll(cacheEmbedding(es, texts[1], ApiEmbedding(texts[1])), Tail(texts))

\* How many texts one createEmbedding request carries at most: MAX_BATCH_SIZE, which
\* is 20 in the source
EmbBatchSize == 2

\* How many texts embedBatch is given at most
MaxBatchTexts == 3

RECURSIVE slices(_, _)
\* `textsToEmbed.slice(i, i + MAX_BATCH_SIZE)` for i = 0, MAX_BATCH_SIZE, ...
slices(texts, size) ==
    IF Len(texts) = 0 THEN << >>
    ELSE IF Len(texts) <= size THEN << texts >>
    ELSE << SubSeq(texts, 1, size) >> \o slices(SubSeq(texts, size + 1, Len(texts)), size)

\* batchResults: {text, embedding} for each text sent, the API answering each
\* request with one embedding per input in the order of the inputs
batchResultsOf(texts) ==
    [j \in 1..Len(texts) |-> [text |-> texts[j], embedding |-> ApiEmbedding(texts[j])]]

\* results: {text, embedding: cached} for each text whose hash has an entry
cachedResultsOf(cache, texts) ==
    LET hit(text) == cacheIndex(cache, HashOf[text]) > 0
        hits == SelectSeq(texts, hit)
    IN [j \in 1..Len(hits) |->
          [text |-> hits[j], embedding |-> cache[cacheIndex(cache, HashOf[hits[j]])].embedding]]

RECURSIVE combineFrom(_, _, _, _, _)
\* embedBatch's last loop: for each index the next result embedded by the API when
\* textIndexMap holds the index, the next cached one otherwise
combineFrom(i, n, isNew, batchResults, results) ==
    IF i > n THEN << >>
    ELSE IF isNew[i]
    THEN << Head(batchResults) >> \o combineFrom(i + 1, n, isNew, Tail(batchResults), results)
    ELSE << Head(results) >> \o combineFrom(i + 1, n, isNew, batchResults, Tail(results))

\* What embedBatch returns as `embeddings`
embedBatchResults(cache, texts, useCache) ==
    LET missing(text) == ~(useCache /\ cacheIndex(cache, HashOf[text]) > 0)
        textsToEmbed == SelectSeq(texts, missing)
        results == IF useCache THEN cachedResultsOf(cache, texts) ELSE << >>
    IN IF Len(textsToEmbed) = 0 THEN results
       ELSE combineFrom(1, Len(texts), [i \in 1..Len(texts) |-> missing(texts[i])],
                        batchResultsOf(textsToEmbed), results)

\* embedBatch(texts, useCache)
EmbedBatch(texts, useCache, apiOk) ==
    LET missing(text) == ~(useCache /\ cacheIndex(embeddingCache, HashOf[text]) > 0)
        textsToEmbed == SelectSeq(texts, missing)
        checked == EmbState(embeddingCache,
                            IF useCache THEN touchHits(embeddingCache, embRecency, texts)
                            ELSE embRecency,
                            << >>, << >>)
        raised == Len(textsToEmbed) > 0 /\ ~apiOk
        es == IF Len(textsToEmbed) > 0 /\ apiOk /\ useCache
              THEN cacheAll(checked, textsToEmbed) ELSE checked
        batches == slices(textsToEmbed, EmbBatchSize)
    IN /\ embeddingCache' = es.cache
       /\ embRecency' = es.recency
       /\ embLast' = [NoEmbCall EXCEPT
                       !.op = "embedBatch", !.raised = raised,
                       !.hit = (Len(textsToEmbed) = 0 /\ Len(texts) > 0),
                       !.evicted = es.evicted, !.lruAt = es.lruAt,
                       !.texts = texts,
                       !.embeddings = IF raised THEN << >>
                                      ELSE embedBatchResults(embeddingCache, texts, useCache),
                       !.requests = [k \in 1..Len(batches) |-> Len(batches[k])]]
       /\ UNCHANGED notEmb

\* The vectors the similarity computations are given
SimVectors == { << 1, 0 >>, << 0, 1 >>, << 1, 1 >>, << 1, 0, 0 >> }

SimThresholds == {0, 50}

\* EmbeddingService.cosineSimilarity(a, b): throws when the lengths differ
embeddingCosineSimilarity(a, b) ==
    IF Len(a) # Len(b) THEN [raised |-> TRUE, similarity |-> NoSimilarity]
    ELSE [raised |-> FALSE, similarity |-> cosineSimilarity(a, b)]

\* findMostSimilar(queryEmbedding, candidates, topK, threshold)
findMostSimilar(queryEmbedding, candidates, topK, threshold) ==
    LET scored == [i \in 1..Len(candidates) |->
                     [id |-> candidates[i].id,
                      similarity |-> embeddingCosineSimilarity(queryEmbedding,
                                                               candidates[i].embedding).similarity]]
        keep(r) == aboveThreshold(r.similarity, threshold)
    IN IF \E i \in 1..Len(candidates) :
             embeddingCosineSimilarity(queryEmbedding, candidates[i].embedding).raised
       THEN [raised |-> TRUE, results |-> << >>]
       ELSE [raised |-> FALSE,
             results |-> Truncate(sortBySimilarity(SelectSeq(scored, keep), << >>), topK)]

\* The candidate lists: entries numbered in order
Candidates ==
    UNION { { [i \in 1..n |-> [id |-> i, embedding |-> es[i]]] : es \in [1..n -> SimVectors] } :
              n \in 1..MaxTexts }

\* embeddingService.cosineSimilarity(a, b) is called
CosineSimilarity(a, b) ==
    /\ embLast' = [NoEmbCall EXCEPT !.op = "cosineSimilarity",
                                   !.query = a,
                                   !.candidates = << [id |-> 1, embedding |-> b] >>,
                                   !.mismatch = (Len(a) # Len(b)),
                                   !.raised = embeddingCosineSimilarity(a, b).raised,
                                   !.similarity = embeddingCosineSimilarity(a, b).similarity]
    /\ UNCHANGED << embeddingCache, embRecency >>
    /\ UNCHANGED notEmb

\* embeddingService.findMostSimilar(queryEmbedding, candidates, topK, threshold)
FindMostSimilar(queryEmbedding, candidates, topK, threshold) ==
    /\ embLast' = [NoEmbCall EXCEPT
                    !.op = "findMostSimilar",
                    !.query = queryEmbedding,
                    !.candidates = candidates,
                    !.mismatch = (\E i \in 1..Len(candidates) :
                                     Len(candidates[i].embedding) # Len(queryEmbedding)),
                    !.raised = findMostSimilar(queryEmbedding, candidates, topK, threshold).raised,
                    !.results = findMostSimilar(queryEmbedding, candidates, topK,
                                                threshold).results]
    /\ UNCHANGED << embeddingCache, embRecency >>
    /\ UNCHANGED notEmb

TextLists == UNION { [1..n -> Texts] : n \in 0..MaxBatchTexts }

InitEmb == InitVec

NextEmb ==
    \/ \E text \in Texts, useCache \in BOOLEAN, apiOk \in BOOLEAN : Embed(text, useCache, apiOk)
    \/ \E texts \in TextLists, useCache \in BOOLEAN, apiOk \in BOOLEAN :
          EmbedBatch(texts, useCache, apiOk)

SpecEmb == InitEmb /\ [][NextEmb]_vars

(***************************************************************************)
(* RAGEngine.buildContext.  A text is its length in characters.            *)
(***************************************************************************)

CHARS_PER_TOKEN == 4

\* `if (remainingTokens > 50)`
TruncateAbove == 50

\* How many search results buildContext is given at most
MaxResults == 3

\* The lengths of the texts of the results, and the token budgets
ResultChars == {40, 200, 204, 400}
TokenBudgets == {60, 100, 110}

\* estimateTokens(text): Math.ceil(text.length / CHARS_PER_TOKEN)
estimateTokens(chars) == (chars + CHARS_PER_TOKEN - 1) \div CHARS_PER_TOKEN

\* String.prototype.slice(0, end) on a text of that length
sliceTo(chars, end) == IF chars < end THEN chars ELSE end

\* A context string: the result it comes from, its length, whether it is cut
ContextEntry(id, chars, truncated) == [id |-> id, chars |-> chars, truncated |-> truncated]

RECURSIVE buildContextFrom(_, _, _, _)
\* buildContext's loop over the results left, with context and totalTokens so far
buildContextFrom(results, maxTokens, context, totalTokens) ==
    IF Len(results) = 0 THEN [context |-> context, tokenEstimate |-> totalTokens]
    ELSE LET result == results[1]
             tokens == estimateTokens(result.chars)
             remainingTokens == maxTokens - totalTokens
         IN IF totalTokens + tokens > maxTokens
            THEN IF remainingTokens > TruncateAbove
                 THEN [context |-> Append(context,
                                          ContextEntry(result.id,
                                                       sliceTo(result.chars,
                                                               remainingTokens * CHARS_PER_TOKEN)
                                                           + Len("..."),
                                                       TRUE)),
                       tokenEstimate |-> totalTokens]
                 ELSE [context |-> context, tokenEstimate |-> totalTokens]
            ELSE buildContextFrom(Tail(results), maxTokens,
                                  Append(context, ContextEntry(result.id, result.chars, FALSE)),
                                  totalTokens + tokens)

\* buildContext(results, maxTokens)
buildContext(results, maxTokens) == buildContextFrom(results, maxTokens, << >>, 0)

\* The result lists: entries numbered in order
ResultLists ==
    UNION { { [i \in 1..n |-> [id |-> i, chars |-> cs[i]]] : cs \in [1..n -> ResultChars] } :
              n \in 0..MaxResults }

\* buildContext(results, maxTokens) is called
BuildContext(results, maxTokens) ==
    /\ ctxLast' = [called |-> TRUE, results |-> results, maxTokens |-> maxTokens,
                   context |-> buildContext(results, maxTokens).context,
                   tokenEstimate |-> buildContext(results, maxTokens).tokenEstimate]
    /\ UNCHANGED notCtx

NextCtx == \E results \in ResultLists, maxTokens \in TokenBudgets : BuildContext(results, maxTokens)

SpecCtx == InitVec /\ [][NextCtx]_vars

(***************************************************************************)
(* The content script's executeFill.  findFieldElement gives the element   *)
(* the signature was taken from, or none when the page no longer has it.   *)
(***************************************************************************)

\* How many mappings executeFill is given at most
MaxExec == 2

\* The fields of the mappings: two that may be filled and three sensitive ones
ExecFields == {fEmail, fFirst, fPass, fSsn, fOtp}

\* What the page does with one mapping: the element is there and takes the value,
\* is missing, or fillField throws
ElementOutcomes == {"ok", "missing", "throws"}

ExecLists ==
    UNION { [1..n -> { Mapping(f, "v", 70, "static") : f \in ExecFields }] : n \in 0..MaxExec }

\* isFieldDenylisted for each of the fields
ExecDenylisted == [f \in ExecFields |-> isFieldDenylisted(f)]

\* One turn of executeFill's loop: what happens to the mapping
fillOne(mapping, element) ==
    IF ExecDenylisted[mapping.fieldSignature] THEN "skipped"
    ELSE IF element = "missing" THEN "notFound"
    ELSE IF element = "throws" THEN "failed"
    ELSE "written"

\* How many positions of a sequence hold one of the values
CountOf(seq, values) == Cardinality({ i \in 1..Len(seq) : seq[i] \in values })

\* executeFill(mappings) on the mappings the content script was sent: found[i] is
\* what the page does with mapping i
ExecuteFill ==
    /\ ~execLast.called
    /\ LET mappings == execLast.mappings
           outcome == [i \in 1..Len(mappings) |-> fillOne(mappings[i], execLast.found[i])]
       IN execLast' = [execLast EXCEPT
                         !.called = TRUE,
                         !.outcome = outcome,
                         !.filledCount = CountOf(outcome, {"written"}),
                         !.errors = CountOf(outcome, {"notFound", "failed"})]
    /\ UNCHANGED notExec

\* A content script that was sent a mapping list, on a page
InitExec ==
    /\ OrchReady
    /\ client.apiKey
    /\ CallIdle
    /\ BgIdle
    /\ activeProfileId = NoProfile
    /\ LearnIdle
    /\ MergeIdle
    /\ VecIdle
    /\ MatchIdle
    /\ CacheIdle /\ ReqIdle /\ ConcIdle /\ EmbIdle /\ CtxIdle
    /\ \E mappings \in ExecLists :
         \E elements \in [1..Len(mappings) -> ElementOutcomes] :
             execLast = [NoExec EXCEPT !.mappings = mappings, !.found = elements]

NextExec == ExecuteFill

SpecExec == InitExec /\ [][NextExec]_vars

\* The similarity computations of EmbeddingService, on vectors drawn from SimVectors
NextSim ==
    \/ \E a \in SimVectors, b \in SimVectors : CosineSimilarity(a, b)
    \/ \E q \in SimVectors, candidates \in Candidates, k \in TopKs, t \in SimThresholds :
          FindMostSimilar(q, candidates, k, t)

SpecSim == InitEmb /\ [][NextSim]_vars

(***************************************************************************)
(* The static matcher on its own: createSuggestedMappings applied to a     *)
(* detected form and a profile's fields.                                   *)
(***************************************************************************)

MaxFormFields == 2

\* The labels of the detected text fields
MatchLabels == {"full name", "name", "linkedin", "title", "email"}

matchField(label) == Field("m_" \o label, "text", label, "", "", "")

\* The forms: up to MaxFormFields fields with distinct labels
MatchForms ==
    { f \in UNION { [1..n -> MatchLabels] : n \in 1..MaxFormFields } :
        \A i, j \in 1..Len(f) : i # j => f[i] # f[j] }

formOf(labels) == [i \in 1..Len(labels) |-> matchField(labels[i])]

\* The profile fields a profile may hold, in the order it stores them
MatchKVs ==
    << KV("firstName", "Ann"), KV("lastName", "Lee"), KV("name", "Annie"),
       KV("linkedin_url", "in/ann"), KV("title", "Dr"), KV("jobTitle", "Engineer"),
       KV("email", "") >>

RECURSIVE pickFields(_, _)
pickFields(kvs, picked) ==
    IF Len(kvs) = 0 THEN << >>
    ELSE (IF kvs[1].key \in picked THEN << kvs[1] >> ELSE << >>)
         \o pickFields(Tail(kvs), picked)

MatchProfiles ==
    { pickFields(MatchKVs, picked) :
        picked \in SUBSET { MatchKVs[i].key : i \in 1..Len(MatchKVs) } }

\* createSuggestedMappings(fields, profile) called for the detected form
Match ==
    /\ ~matchOut.done
    /\ matchOut' = [done |-> TRUE,
                    mappings |-> createSuggestedMappings(matchIn.fields,
                                                         matchIn.profileFields)]
    /\ UNCHANGED << matchIn, orchVars, callVars, bgVars, learnVars, mergeVars, vecVars,
                    serviceVars >>

InitMatch ==
    /\ OrchReady
    /\ client.apiKey
    /\ CallIdle
    /\ BgIdle
    /\ activeProfileId = NoProfile
    /\ LearnIdle
    /\ MergeIdle
    /\ VecIdle
    /\ matchIn \in [fields : { formOf(labels) : labels \in MatchForms },
                    profileFields : MatchProfiles]
    /\ matchOut = NotMatched
    /\ ServicesIdle

NextMatch == Match

SpecMatch == InitMatch /\ [][NextMatch]_vars

\* The cache service, either as constructed or with its init() over (initialized:
\* the recursion of init and cleanExpired keeps a constructed service from
\* getting there; the bodies of get and set are exercised from that state)
InitCache ==
    /\ OrchReady
    /\ client.apiKey
    /\ CallIdle
    /\ BgIdle
    /\ activeProfileId = NoProfile
    /\ LearnIdle
    /\ MergeIdle
    /\ VecIdle
    /\ MatchIdle
    /\ cacheService \in { [initialized |-> i, at |-> "idle"] : i \in BOOLEAN }
    /\ cacheDb = [k \in CacheKeys |-> NoEntry]
    /\ cacheNow = 0
    /\ cacheLast = NoGet
    /\ ReqIdle
    /\ ConcIdle
    /\ EmbIdle
    /\ CtxIdle
    /\ ExecIdle

NextCache ==
    \/ CacheInitCall
    \/ InitCleansExpired
    \/ CleanExpiredInits
    \/ \E key \in CacheKeys : CacheSet(key)
    \/ \E key \in CacheKeys : CacheGet(key)
    \/ CacheTick

SpecCache == InitCache /\ [][NextCache]_vars

\* A call that is in init or in cleanExpired goes on: the promises it awaits resolve
SpecCacheInit ==
    SpecCache /\ WF_vars(InitCleansExpired) /\ WF_vars(CleanExpiredInits)

InitReq ==
    /\ OrchReady
    /\ client.apiKey
    /\ CallIdle
    /\ BgIdle
    /\ activeProfileId = NoProfile
    /\ LearnIdle
    /\ MergeIdle
    /\ VecIdle
    /\ MatchIdle
    /\ ServicesIdle

NextReq ==
    \/ \E endpoint \in Endpoints : MakeRequest(endpoint)
    \/ \E outcome \in FetchOutcomes : FetchSettles(outcome)
    \/ SleepDone

SpecReq == InitReq /\ [][NextReq]_vars

\* The timers of sleep fire; whether a fetch ever settles is up to the network
SpecReqTimers == SpecReq /\ WF_vars(SleepDone)

\* The timers fire and every fetch settles
SpecReqAnswered == SpecReqTimers /\ WF_vars(\E outcome \in FetchOutcomes : FetchSettles(outcome))

(***************************************************************************)
(* The claims.                                                             *)
(***************************************************************************)

AllFields == UNION { { FormFields(f)[i] : i \in 1..Len(FormFields(f)) } : f \in FormIds }

NoDenylisted(mappings) ==
    \A i \in 1..Len(mappings) : ~Denylisted[mappings[i].fieldSignature.id]

\* C1: no mapping is ever produced for a password, credential-autocomplete or
\* denylisted field: not by the static matcher, not in the handler's final list,
\* and not in the list a FILL_COMMAND carries.
C1_NoMappingForDenylisted ==
    /\ \A h \in Handlers : NoDenylisted(loc[h].staticMappings)
    /\ \A h \in Handlers : NoDenylisted(loc[h].finalMappings)
    /\ \A i \in 1..Len(outbox) : NoDenylisted(outbox[i].mappings)

\* C2: a fill that did not use the model's answer, whatever failed and whatever
\* the configuration, returns the static mappings with source static and the
\* reason recorded, and never raises.
C2_FillNeverRaises ==
    call.pc = "returned" /\ ~call.result.llmUsed =>
        /\ ~call.result.raised
        /\ call.result.source = "static"
        /\ call.result.fallbackReason # ""
        /\ call.result.mappings = StaticMappingsOf[call.formId][call.profileId]

\* The vector texts name no denylisted field
NoDenylistedText(text) ==
    \A f \in AllFields : isFieldDenylisted(f) => ~Includes(text, f.normalizedLabel \o ": ")

\* C3: no VectorEntry text contains a denylisted field or the value entered for
\* it, after any sequence of recordEdit, commitEdits, cancelEdits and
\* addLearnedExample.
C3_NoDenylistedVectorText ==
    \A v \in vectors : NoDenylistedText(v.text) /\ \A x \in EditValues : ~Includes(v.text, x)

\* The keys of the reply that are ids of denylisted fields of the form
DenylistedKeys(raw, fields) ==
    { raw.entries[i].key : i \in 1..Len(raw.entries) }
    \cap { fields[i].id : i \in { j \in 1..Len(fields) : isFieldDenylisted(fields[j]) } }

\* C4: when the reply holds a key that is the id of a denylisted field, the
\* validator reports a blocking SECURITY_VIOLATION, makes no mapping for it and
\* marks the result invalid, and the orchestrator returns the static-only result.
C4_DenylistedKeyFallsBack ==
    LET fields == FormFields(call.formId)
        bad == DenylistedKeys(call.raw, fields)
        result == validate(call.raw, fields)
    IN call.pc = "returned" /\ call.raw.kind = "object" /\ bad # {} =>
        /\ ~result.valid
        /\ \A k \in bad :
              /\ \E i \in 1..Len(result.errors) :
                    result.errors[i] = [type |-> "SECURITY_VIOLATION", fieldId |-> k]
              /\ ~isMapped(result.mappings, k)
        /\ ~call.result.raised
        /\ call.result.source = "static"
        /\ ~call.result.llmUsed

\* The field ids of a list of mappings
MappedIds(mappings) == { mappings[i].fieldSignature.id : i \in 1..Len(mappings) }

\* The mapping of a list for a field id
MappingOf(mappings, id) ==
    mappings[CHOOSE i \in 1..Len(mappings) : mappings[i].fieldSignature.id = id]

\* C5: the merge returns exactly one mapping per field id of either argument;
\* for an id in both, the strictly higher-confidence mapping, and with equal
\* confidences the static one.
C5_MergeKeepsHigher ==
    mergeOut.done =>
        LET out == mergeOut.mappings
        IN /\ MappedIds(out) = MappedIds(mergeIn.llm) \cup MappedIds(mergeIn.static)
           /\ \A i, j \in 1..Len(out) :
                 i # j => out[i].fieldSignature.id # out[j].fieldSignature.id
           /\ \A id \in MappedIds(out) :
                 LET inLLM == id \in MappedIds(mergeIn.llm)
                     inStatic == id \in MappedIds(mergeIn.static)
                 IN MappingOf(out, id) =
                       IF inLLM /\ inStatic
                       THEN IF MappingOf(mergeIn.llm, id).confidence
                                 > MappingOf(mergeIn.static, id).confidence
                            THEN MappingOf(mergeIn.llm, id)
                            ELSE MappingOf(mergeIn.static, id)
                       ELSE IF inStatic THEN MappingOf(mergeIn.static, id)
                       ELSE MappingOf(mergeIn.llm, id)

\* C5: a merge of lists sharing two field ids, one with a higher-confidence LLM
\* mapping and one with equal confidences, has been computed
C5_Witness ==
    /\ mergeOut.done
    /\ \E a, b \in MappedIds(mergeIn.llm) \cap MappedIds(mergeIn.static) :
          /\ MappingOf(mergeIn.llm, a).confidence > MappingOf(mergeIn.static, a).confidence
          /\ MappingOf(mergeIn.llm, b).confidence = MappingOf(mergeIn.static, b).confidence

\* buildCacheKey of a logged fill
FillKey(formId, profileId) == buildCacheKey(FormDomain(formId), FormFields(formId), profileId)

\* C6: a fill whose reply validated is stored in the response cache, and the next
\* fill for the same profile and form structure returns with provenance cached
\* and without a chat-completion request.
C6_ValidatedFillIsCached ==
    /\ lastFill.validated => FillKey(lastFill.formId, lastFill.profileId) \in cacheStore
    /\ /\ call.pc = "returned"
       /\ lastFill.validated
       /\ FillKey(call.formId, call.profileId) = FillKey(lastFill.formId, lastFill.profileId)
       => call.result.source = "cached" /\ ~call.chatIssued

\* The invocation that sent the last FILL_COMMAND, when this step sent one
Sends(h) == Len(outbox') > Len(outbox) /\ outbox'[Len(outbox')].from = h

\* C7: a cancel received while the state is INFERRING or FILLING returns the
\* state to IDLE, and afterwards no FILL_COMMAND is sent for the cancelled fill
\* and nothing is committed to the cache or the learned examples.
C7_CancelAborts ==
    [][/\ cancelled' # cancelled => state'.type = "IDLE"
       /\ \A h \in cancelled : ~Sends(h)
       /\ cancelled # {} => UNCHANGED << cacheStore, learnedExamples >>]_vars

\* C8: once a newer TRIGGER_FILL has arrived, an earlier invocation neither
\* writes the fill state nor sends a FILL_COMMAND.
C8_NewerFillTakesOver ==
    [][\A h \in Handlers :
          h < started =>
             /\ ~(stateWriter' = h /\ (stateWriter # h \/ state' # state))
             /\ ~Sends(h)]_vars

\* C9: the state does not stay INFERRING or FILLING once the invocation that
\* moved it there has returned a failure.
C9_NoStuckStateAfterFailure ==
    \A h \in Handlers :
        pc[h] = "done" /\ loc[h].moved /\ loc[h].response # "success" /\ stateWriter = h
            => state.type \notin {"INFERRING", "FILLING"}

\* C10: whenever the state becomes ERROR, the ERROR state carries the state that
\* was current immediately before.
C10_ErrorCarriesPreviousState ==
    [][state'.type = "ERROR" /\ state.type # "ERROR"
          => state'.previousState = state.type]_vars

\* The profile's entries in durable storage
StoredOf(profileId) == { v \in vsStorage : v.profileId = profileId }

\* The entries getVectors and search see for the profile
ReturnedOf(profileId) == Range(getVectors(vsStorage, vsCache, profileId))

\* C11: after ingestKnowledgeBase(p, text) followed by
\* deleteBySourceType(p, 'knowledge_base'), whatever preceded, the profile has no
\* knowledge_base vector, and its vectors of the other kinds are as they were
\* before the pair, in durable storage and in what getVectors returns.
C11_IngestThenDeleteRoundTrip ==
    vsPair.stage = "deleted" =>
        /\ \A v \in StoredOf(vsPair.profileId) \cup ReturnedOf(vsPair.profileId) :
               v.sourceType # "knowledge_base"
        /\ OtherKinds(StoredOf(vsPair.profileId)) = vsPair.stored
        /\ OtherKinds(ReturnedOf(vsPair.profileId)) = vsPair.returned

\* C12: getVectors and search return for a profile only entries of that profile,
\* and a call addressed to some profiles does not change the entries they return
\* for any other profile.
C12_ProfilesIsolated ==
    [][/\ \A p \in VecProfiles : \A v \in ReturnedOf(p)' : v.profileId = p
       /\ \A q \in VecProfiles \ vsLast'.profiles :
             ReturnedOf(q)' = ReturnedOf(q)]_vecVars

\* The entries of a set whose similarity to the query reaches the threshold
Qualifying(returned, query, threshold) ==
    { v \in returned :
        SimGE(cosineSimilarity(query, v.embedding), [num |-> threshold, den2 |-> 10000]) }

MappingsFor(id) == SelectSeq(matchOut.mappings, LAMBDA m : m.fieldSignature.id = id)

\* The form exposes only a full-name field, and the profile holds a first and a
\* last name and nothing under a key of the full name
OnlyFullNameField ==
    /\ Len(matchIn.fields) = 1
    /\ matchIn.fields[1].semanticClass = "full_name"
    /\ findFieldValue(matchIn.profileFields, "firstName") # ""
    /\ findFieldValue(matchIn.profileFields, "lastName") # ""
    /\ \A key \in {"fullName", "full_name", "name"} : ~hasField(matchIn.profileFields, key)

\* C14: once the matcher has run on a form whose only field is a full-name field,
\* for a profile with a first and a last name and no full name, the field has
\* exactly one mapping, its value is "<firstName> <lastName>" and its
\* confidence is 0.9.
C14_FullNameJoined ==
    (matchOut.done /\ OnlyFullNameField) =>
        /\ Len(matchOut.mappings) = 1
        /\ matchOut.mappings[1].fieldSignature.id = matchIn.fields[1].id
        /\ matchOut.mappings[1].value =
               findFieldValue(matchIn.profileFields, "firstName") \o " "
                   \o findFieldValue(matchIn.profileFields, "lastName")
        /\ matchOut.mappings[1].confidence = 90

\* The tiers that have a match for a field, by the matcher's own tests
semanticTierValue(field, profileFields) ==
    IF field.semanticClass = "unknown" THEN ""
    ELSE firstKeyValue(SEMANTIC_TO_PROFILE_KEY(field.semanticClass), profileFields)

labelOf(field) == ToLowerCase(normalizeText(field.normalizedLabel))

\* The confidence and value of the highest tier that has a match: confidence 0
\* when no tier has one
HighestTier(field, profileFields) ==
    IF semanticTierValue(field, profileFields) # ""
    THEN [confidence |-> 100, value |-> semanticTierValue(field, profileFields)]
    ELSE IF exactKeyHits(labelOf(field), profileFields) # {}
    THEN [confidence |-> 95,
          value |-> profileFields[Min(exactKeyHits(labelOf(field), profileFields))].value]
    ELSE IF aliasHits(labelOf(field), profileFields) # {}
    THEN [confidence |-> 80,
          value |-> firstKeyValue(
                        fuzzyPatterns[Min(aliasHits(labelOf(field), profileFields))].keys,
                        profileFields)]
    ELSE IF partialHits(labelOf(field), profileFields) # {}
    THEN [confidence |-> 70,
          value |-> profileFields[Min(partialHits(labelOf(field), profileFields))].value]
    ELSE [confidence |-> 0, value |-> ""]

FoundNoUnmapped(h) ==
    /\ pc[h] = "tabsQuery" /\ pc'[h] # "tabsQuery"
    /\ currentFormSignature # NoForm
    /\ loc'[h].response # "No active tab"
    /\ Len(UnmappedOf[currentFormSignature][loc[h].profileId]) = 0

\* Invocation h goes on with the static mappings alone: no chat completion was
\* asked for, the source is `static`, and the list it sends is the static one
StaticOnly(h) ==
    /\ ~loc'[h].chatIssued
    /\ loc'[h].fillSource = "static"
    /\ pc'[h] \in {"persist2", "send", "replied"} =>
          /\ loc'[h].finalMappings = loc'[h].staticMappings
          /\ \A i \in 1..Len(loc'[h].finalMappings) :
                loc'[h].finalMappings[i].source = "static"
    /\ (pc[h] = "replied" /\ pc'[h] = "done") => loc'[h].response = "success"

\* An invocation that found no unmapped field and is still in flight or returns
AfterNoUnmapped(h) ==
    /\ pc[h] \in {"persist2", "send", "replied"}
    /\ Len(loc[h].unmapped) = 0

C17_NoKeyStaticFill ==
    (call.pc = "returned" /\ ~client.apiKey /\ ~storedApiKey) =>
        /\ ~call.chatIssued
        /\ ~call.result.raised
        /\ call.result.mappings = StaticMappingsOf[call.formId][call.profileId]
        /\ call.result.source = "static"
        /\ ~call.result.llmUsed
        /\ call.result.fallbackReason # ""

\* C18: every recordEdit appends the edit to the buffer of its profile when
\* learning is enabled and the edit's original confidence is strictly below
\* the threshold, and leaves every buffer as it was otherwise; it never
\* touches the buffer of another profile, the history or the vector entries.
C18_RecordEditIffBelowThreshold ==
    [][\A p \in LearnProfiles, t \in EditTargets, c \in OriginalConfidences, v \in EditValues :
          RecordEdit(p, t, c, v) =>
              /\ IF learning.enabled /\ c < learning.minConfidenceToLearn
                 THEN /\ Len(pendingEdits'[p]) = Len(pendingEdits[p]) + 1
                      /\ SubSeq(pendingEdits'[p], 1, Len(pendingEdits[p])) = pendingEdits[p]
                      /\ pendingEdits'[p][Len(pendingEdits'[p])].originalMapping.confidence = c
                      /\ pendingEdits'[p][Len(pendingEdits'[p])].newValue = v
                 ELSE pendingEdits'[p] = pendingEdits[p]
              /\ \A q \in LearnProfiles \ {p} : pendingEdits'[q] = pendingEdits[q]
              /\ UNCHANGED << learnedExamples, vectors >>]_vars

\* With learning enabled, an edit of original confidence 0.7 is in the buffer of
\* p1, and none at the threshold 0.95 is in any buffer
C18_Witness ==
    /\ learning.enabled
    /\ Len(pendingEdits["p1"]) > 0
    /\ pendingEdits["p1"][1].originalMapping.confidence = 70
    /\ pendingEdits["p1"][1].originalMapping.confidence < learning.minConfidenceToLearn
    /\ \A q \in LearnProfiles : \A i \in 1..Len(pendingEdits[q]) :
          pendingEdits[q][i].originalMapping.confidence # 95

\* The timestamps of the examples of a history
Timestamps(examples) == { examples[i].timestamp : i \in 1..Len(examples) }

\* C19: after every addition of a learned example through commitEdits or either
\* addLearnedExample, the history of the profile holds at most
\* maxExamplesPerProfile examples, and the examples a step evicts are older
\* than every example it keeps.
C19_CapAndOldestEvicted ==
    [][\A p \in ProfileIds :
          learnedExamples'[p] # learnedExamples[p] =>
              /\ Len(learnedExamples'[p]) <= learning.maxExamplesPerProfile
              /\ \A gone \in Timestamps(learnedExamples[p]) \ Timestamps(learnedExamples'[p]) :
                    \A kept \in Timestamps(learnedExamples[p]) \cap Timestamps(learnedExamples'[p]) :
                        gone < kept]_vars

\* The vector entries of a profile that come from learned examples
LearnedVectors(store, profileId) ==
    { v \in store : v.profileId = profileId /\ v.sourceType = "learned_example" }

\* C20: every commitEdits on a non-empty buffer leaves the buffer empty, appends
\* to the history of the profile exactly one example that holds one field
\* mapping per buffered edit with the value the user typed, and adds exactly
\* one learned_example vector entry, the one of that example; so no buffered
\* edit is dropped without being persisted.
C20_CommitPersistsAllEdits ==
    [][\A p \in LearnProfiles, embedOk \in BOOLEAN :
          (Len(pendingEdits[p]) > 0 /\ CommitEdits(p, embedOk)) =>
              /\ pendingEdits'[p] = << >>
              /\ p \in ProfileIds
              /\ Len(learnedExamples'[p]) > 0
              /\ LET example == learnedExamples'[p][Len(learnedExamples'[p])]
                     edits == pendingEdits[p]
                 IN /\ example.id \notin { learnedExamples[p][i].id :
                                             i \in 1..Len(learnedExamples[p]) }
                    /\ Len(learnedExamples'[p]) <= Len(learnedExamples[p]) + 1
                    /\ Len(example.fieldMappings) = Len(edits)
                    /\ \A i \in 1..Len(edits) :
                          /\ example.fieldMappings[i].value = edits[i].newValue
                          /\ example.fieldMappings[i].fieldSignature =
                                 edits[i].originalMapping.fieldSignature
                    /\ LearnedVectors(vectors', p) \ LearnedVectors(vectors, p) =
                           { VectorEntry(p, example) }]_vars

Settled == req.pc \in {"returned", "raised"}

\* C23: a request that was issued is given up after its timeout when no response
\* arrives, so makeRequest, and the fill that awaits it, eventually returns or
\* raises whatever the network does.
C23_RequestEventuallySettles ==
    (req.pc = "fetch") ~> Settled

\* The statuses of the failures that are not transient
NonTransient == {400, 401, 403, 404}

\* C25: a reply with an authentication (401, 403), model-not-found (404) or
\* validation/content (400) status makes makeRequest raise that error at once:
\* no further fetch is issued, no delay is inserted, and nothing follows the
\* raise.
C25_NonTransientNotRetried ==
    [][/\ \A outcome \in FetchOutcomes :
             (FetchSettles(outcome) /\ outcome.kind = "http"
                                    /\ outcome.status \in NonTransient) =>
                 /\ req'.pc = "raised"
                 /\ req'.thrown.status = outcome.status
                 /\ ~req'.thrown.retryable
                 /\ req'.sleeps = req.sleeps
                 /\ Len(req'.fetches) = Len(req.fetches)
       /\ req.pc = "raised" => req' = req]_vars

\* The first attempt was answered with 401 and makeRequest raised it after that
\* single fetch, without any delay
C25_Witness ==
    /\ req.pc = "raised"
    /\ req.thrown.code = "INVALID_API_KEY"
    /\ req.thrown.status = 401
    /\ req.fetches = << "http" >>
    /\ req.sleeps = << >>

\* The failures the loop retries
Transient == {"http", "network", "badJson"}

\* At most MAX_RETRIES attempts, a delay of 1 s, then 2 s, between them and none
\* after the last, every attempt but the last a transient failure, and the
\* error of the last attempt raised
RetryBounded ==
    /\ Len(req.fetches) <= 3
    /\ req.sleeps \in { << >>, << 1000 >>, << 1000, 2000 >> }
    /\ Len(req.sleeps) = IF req.pc = "sleep" THEN Len(req.fetches)
                         ELSE IF req.pc = "idle" THEN 0 ELSE Len(req.fetches) - 1
    /\ \A i \in 1..(Len(req.fetches) - 1) : req.fetches[i] \in Transient
    /\ (req.pc = "raised" /\ Len(req.fetches) = 3) =>
           /\ req.thrown # NoError
           /\ req.thrown.isOpenRouterError => req.thrown = req.lastError \/ ~req.thrown.retryable
           /\ ~req.thrown.isOpenRouterError => req.thrown = req.lastError

WritesCompleted == \A t \in Tasks : tasks[t].pc \in {"idle", "load"}

C29_MismatchNeverRaised ==
    (embLast.op \in {"cosineSimilarity", "findMostSimilar"} /\ embLast.mismatch)
        => ~embLast.raised

\* C30: the embedding cache never holds more than its capacity, and every entry a
\* call evicted was the least recently used one at that moment, hits in embed and
\* embedBatch counting as uses
C30_BoundedLru ==
    /\ Len(embeddingCache) <= EmbCapacity
    /\ embLast.evicted = embLast.lruAt

\* C31: embedBatch returns one result per input text, in the input order, result i
\* with the text and the embedding of input i, and no request carries more texts
\* than the batch size
C31_BatchResultsInOrder ==
    (embLast.op = "embedBatch" /\ ~embLast.raised) =>
        /\ Len(embLast.embeddings) = Len(embLast.texts)
        /\ \A i \in 1..Len(embLast.embeddings) :
              /\ embLast.embeddings[i].text = embLast.texts[i]
              /\ embLast.embeddings[i].embedding = ApiEmbedding(embLast.texts[i])
        /\ \A k \in 1..Len(embLast.requests) : embLast.requests[k] <= EmbBatchSize

RECURSIVE TokensOf(_, _)
\* The token estimates of the first n texts, summed
TokensOf(chars, n) == IF n = 0 THEN 0 ELSE estimateTokens(chars[n]) + TokensOf(chars, n - 1)

\* The first result that does not fit the budget after those before it, 0 if all fit
FirstOverflow(results, maxTokens) ==
    LET chars == [i \in 1..Len(results) |-> results[i].chars]
        over == { i \in 1..Len(results) : TokensOf(chars, i) > maxTokens }
    IN IF over = {} THEN 0 ELSE CHOOSE i \in over : \A j \in over : i <= j

\* C32: the results before the first one that overflows are included whole and in
\* order; that one is included as a truncated copy exactly when at least 50 tokens of
\* the budget remain; nothing after it is included
C32_PackWholeThenTruncate ==
    ctxLast.called =>
        LET results == ctxLast.results
            k == FirstOverflow(results, ctxLast.maxTokens)
            whole == IF k = 0 THEN Len(results) ELSE k - 1
            chars == [i \in 1..Len(results) |-> results[i].chars]
            remaining == ctxLast.maxTokens - TokensOf(chars, whole)
            cut == k > 0 /\ remaining >= 50
        IN /\ Len(ctxLast.context) = whole + (IF cut THEN 1 ELSE 0)
           /\ \A i \in 1..Len(ctxLast.context) :
                 /\ ctxLast.context[i].id = results[i].id
                 /\ ctxLast.context[i].truncated = (i > whole)
                 /\ i <= whole => ctxLast.context[i].chars = results[i].chars

\* C33: the token estimates of the returned context strings sum to no more than
\* maxContextTokens, and tokenEstimate is that sum
C33_ContextTokenBounded ==
    ctxLast.called =>
        LET chars == [i \in 1..Len(ctxLast.context) |-> ctxLast.context[i].chars]
        IN /\ TokensOf(chars, Len(chars)) <= ctxLast.maxTokens
           /\ ctxLast.tokenEstimate = TokensOf(chars, Len(chars))

\* The fields of ExecFields the denylist names: a password input, a label with
\* "ssn", an autocomplete of one-time-code
SensitiveFields == {fPass, fSsn, fOtp}

\* C34: executeFill writes no value into a denylisted field: every such mapping is
\* skipped, and the other mappings are still processed, each one whose element is
\* there and takes the value being written
C34_DenylistedNeverFilled ==
    execLast.called =>
        \A i \in 1..Len(execLast.mappings) :
            /\ execLast.mappings[i].fieldSignature \in SensitiveFields
                  => execLast.outcome[i] = "skipped"
            /\ (execLast.mappings[i].fieldSignature \notin SensitiveFields
                   /\ execLast.found[i] = "ok")
                  => execLast.outcome[i] = "written"

\* A denylisted mapping was skipped and the mapping after it was written
C34_Witness ==
    /\ execLast.called /\ Len(execLast.mappings) = 2
    /\ execLast.mappings[1].fieldSignature = fSsn /\ execLast.outcome[1] = "skipped"
    /\ execLast.outcome[2] = "written"

\* C35: a call of init on a fresh service completes and leaves the service
\* initialized
C35_InitTerminates ==
    (cacheService.at = "init") ~> cacheService.initialized

\* C36: right after delete(id, profileId), the entry with that id is not among
\* what getVectors returns for the profile, whether the profile's array was cached
\* or is loaded from the object store
C36_DeletedEntryNotReturned ==
    [][\A id \in VecIds, p \in VecProfiles :
          Delete(id, p) =>
              \A i \in 1..Len(getVectors(vsStorage', vsCache', p)) :
                  getVectors(vsStorage', vsCache', p)[i].id # id]_vars

\* The profile's knowledge_base vectors in the object store
KbVectors(storage, profileId) ==
    { v \in storage : v.profileId = profileId /\ v.sourceType = "knowledge_base" }

\* C37: when ingestKnowledgeBase fails (embedBatch raises), the profile's
\* knowledge_base vectors in the object store are those from before the call
C37_FailedIngestKeepsVectors ==
    [][\A p \in VecProfiles, chunks \in 1..MaxChunks :
          IngestKnowledgeBase(p, chunks, FALSE) =>
              KbVectors(vsStorage', p) = KbVectors(vsStorage, p)]_vars

\* list.filter(m => m.fieldSignature.id === id).length <= 1 for every id
OnePerField(mappings) ==
    \A i, j \in 1..Len(mappings) :
        mappings[i].fieldSignature.id = mappings[j].fieldSignature.id => i = j

\* Every mapping of `part` is a mapping of `whole`
AllAppear(part, whole) ==
    \A i \in 1..Len(part) : \E j \in 1..Len(whole) : whole[j] = part[i]

\* C38: the mapping list of a FILL_COMMAND holds at most one mapping per field
\* id, and every mapping createSuggestedMappings gives for the form and the
\* profile is in it unchanged
C38_OnePerFieldStaticKept ==
    [][\A h \in Handlers :
          Sends(h) =>
              /\ OnePerField(outbox'[Len(outbox')].mappings)
              /\ AllAppear(createSuggestedMappings(FormFields(loc[h].formId),
                                                   ProfileFields(loc[h].profileId)),
                           outbox'[Len(outbox')].mappings)]_vars

\* A FILL_COMMAND that holds static mappings and mappings of the orchestrator
C38_Witness ==
    \E k \in 1..Len(outbox) :
        /\ \E i \in 1..Len(outbox[k].mappings) : outbox[k].mappings[i].source = "static"
        /\ \E i \in 1..Len(outbox[k].mappings) : outbox[k].mappings[i].source = "llm"

\* C40: every mapping createSuggestedMappings produces has a non-empty value
C40_StaticValuesNonEmpty ==
    matchOut.done =>
        \A i \in 1..Len(matchOut.mappings) : matchOut.mappings[i].value # ""

\* C39: every learned_example vector of the index belongs to a learned example
\* that the profile's history holds
C39_VectorsHaveExamples ==
    \A v \in vectors :
        v.sourceType = "learned_example" =>
            \E i \in 1..Len(learnedExamples[v.profileId]) :
                learnedExamples[v.profileId][i].id = v.sourceId

\* C27: whenever a TRIGGER_FILL invocation has issued its chat-completion request,
\* retrieval (ragEngine.retrieve) has run for it before
C27_RetrievalBeforeChat ==
    \A h \in Handlers : loc[h].chatIssued => loc[h].retrieved

\* C24: right after ProfileService.delete(p), getVectors(p) returns no entry and
\* neither does any search(p, ...), whether or not the vectors of p had been
\* read into the cache before.
C24_DeletedProfileHasNoVectors ==
    [][\A p \in VecProfiles :
          ProfileServiceDelete(p) =>
              /\ getVectors(vsStorage', vsCache', p) = << >>
              /\ \A q \in QueryEmbeddings, k \in TopKs, t \in Thresholds :
                    search(getVectors(vsStorage', vsCache', p), q, k, t) = << >>]_vars

====
